---- MODULE Spec2Model ----
(***************************************************************************)
(* State-machine model of the generic object pool TBFObjectPool, its       *)
(* backing container UBFPoolContainer and its lease token                   *)
(* TBFPooledObjectHandle.                                                   *)
(*                                                                          *)
(* Time is counted in units of KINDA_SMALL_NUMBER, so every float           *)
(* comparison of the source becomes an integer comparison.  A pooled        *)
(* object is an integer identity; objects the pool constructs itself take   *)
(* the pool id of their slot as identity, objects owned by the client are   *)
(* the numbers in ExternalObjects.                                          *)
(***************************************************************************)
EXTENDS Integers, Sequences, FiniteSets, TLC

\* ---------------------------------------------------------------- bounds
MaxPoolLimit == 2
MaxPoolID == 1
MaxCheckoutID == 3
MaxTime == 1
MaxRefs == 2
MaxLeaseCheckoutID == 5
MaxLeaseRefs == 3
MaxReclaimCheckoutID == 7
MaxWrapRefs == 2
MaxCooldownTime == 3
CooldownSeconds == 2
MaxSweepPoolLimit == 3
MaxSweepPoolID == 2
MaxSweepTime == 2
SweepOccupancySeconds == 2
MaxLiveTime == 4
SweepCooldownSeconds == 1

\* ------------------------------------------------------ program constants
INT16_MAX == 32767
INT16_MIN == 0 - 32768
KINDA_SMALL_NUMBER == 1
InvalidID == 0 - 1

NoObject == 0 - 1
WrongClassObject == 0 - 2
ExternalObjects == {10}

ReclaimStrategies == {"Oldest", "FirstFound", "LastFound", "Random"}
ReclaimPolicies == {"NonReclaimable", "Reclaimable"}
Tags == {0, 1}

\* GetObjectGameplayTag of the interface every pooled object of the model implements.
TagOf(obj) == obj % 2

\* ++ on the int16 ObjectCheckoutID of FBFPooledObjectInfo.
Inc16(g) == IF g = INT16_MAX THEN INT16_MIN ELSE g + 1

\* --------------------------------------------------------- TArray helpers
Pop(s) == SubSeq(s, 1, Len(s) - 1)
Last(s) == s[Len(s)]
RemoveAtSwap(s, i) == [k \in 1..(Len(s) - 1) |-> IF k = i THEN s[Len(s)] ELSE s[k]]
Remove(s, x) == SelectSeq(s, LAMBDA e : e # x)
Contains(s, x) == \E k \in 1..Len(s) : s[k] = x
IndexOf(s, x) == CHOOSE k \in 1..Len(s) : s[k] = x /\ \A j \in 1..(k - 1) : s[j] # x
RemoveSingle(s, x) ==
    IF Contains(s, x)
    THEN [k \in 1..(Len(s) - 1) |-> IF k < IndexOf(s, x) THEN s[k] ELSE s[k + 1]]
    ELSE s
Range(s) == {s[k] : k \in 1..Len(s)}

\* TMap helpers: a map is a function whose DOMAIN is the set of keys.
MapAdd(m, k, v) == [x \in DOMAIN m \cup {k} |-> IF x = k THEN v ELSE m[x]]
MapRemove(m, k) == [x \in DOMAIN m \ {k} |-> m[x]]

\* ------------------------------------------------------------------ state
VARIABLES
    ObjectPool,                  \* UBFPoolContainer::ObjectPool, pool id -> FBFPooledObjectInfo
    InactiveObjectIDPool,        \* UBFPoolContainer::InactiveObjectIDPool
    ReclaimableUnpooledObjects,  \* TBFObjectPool::ReclaimableUnpooledObjects
    PoolInitInfo,                \* TBFObjectPool::PoolInitInfo (the fields the pool reads)
    PoolType,                    \* TBFObjectPool::PoolType
    WidgetPoolOwnerType,         \* TBFObjectPool::WidgetPoolOwnerType
    CurrentPoolIDIndex,          \* TBFObjectPool::CurrentPoolIDIndex
    bHasBeenInitialized,         \* TBFObjectPool::bHasBeenInitialized
    bTickEnabled,                \* UBFPoolContainer::PrimaryContainerTick enabled flag
    Handles,                     \* live TBFPooledObjectHandle objects, handle id -> fields
    TimeSeconds,                 \* UWorld::GetTimeSeconds()
    bCrashed                     \* the process died in a failed check or a null dereference

vars == <<ObjectPool, InactiveObjectIDPool, ReclaimableUnpooledObjects, PoolInitInfo,
          PoolType, WidgetPoolOwnerType, CurrentPoolIDIndex, bHasBeenInitialized, bTickEnabled, Handles,
          TimeSeconds, bCrashed>>

\* FBFObjectPoolInitParams.  Owner, World and PoolClass are kept by kind.
InitParams(Owner, bWorld, PoolClass, PoolLimit, InitialCount, Cooldown, MaxOccupancy, bTick, Strategy, bAdoptionOnly) ==
    [Owner |-> Owner, bWorld |-> bWorld, PoolClass |-> PoolClass,
     PoolLimit |-> PoolLimit, InitialCount |-> InitialCount,
     CooldownTimeSeconds |-> Cooldown,
     MaxObjectInactiveOccupancySeconds |-> MaxOccupancy,
     bEnableTicking |-> bTick,
     ForceReturnReclaimStrategy |-> Strategy,
     bAdoptionOnlyPool |-> bAdoptionOnly]

\* FBFObjectPoolInitParams as default constructed.
DefaultInitParams ==
    InitParams("None", FALSE, "None", 50, 0, 0 - 1, 0 - 1, FALSE, "Oldest", FALSE)

\* One entry of a call's log: a delegate broadcast or an activate/deactivate call.
Event(ev, id, gen, obj) == [ev |-> ev, id |-> id, gen |-> gen, obj |-> obj]

\* The part of the pool the operations below rewrite, as one record.
Store ==
    [ObjectPool |-> ObjectPool,
     InactiveObjectIDPool |-> InactiveObjectIDPool,
     ReclaimableUnpooledObjects |-> ReclaimableUnpooledObjects,
     CurrentPoolIDIndex |-> CurrentPoolIDIndex,
     log |-> <<>>]

GetPoolNum(S) == Cardinality(DOMAIN S.ObjectPool)
GetInactivePoolNum(S) == Len(S.InactiveObjectIDPool)
GetActivePoolNum(S) == GetPoolNum(S) - GetInactivePoolNum(S)
GetPoolLimit == PoolInitInfo.PoolLimit

Init ==
    /\ ObjectPool = << >>
    /\ InactiveObjectIDPool = << >>
    /\ ReclaimableUnpooledObjects = << >>
    /\ PoolInitInfo = DefaultInitParams
    /\ PoolType = "Invalid"
    /\ WidgetPoolOwnerType = "Invalid"
    /\ CurrentPoolIDIndex = 0 - 1
    /\ bHasBeenInitialized = FALSE
    /\ bTickEnabled = FALSE
    /\ Handles = << >>
    /\ TimeSeconds = 0
    /\ bCrashed = FALSE

\* --------------------------------------------------- internal operations
\* FBFPooledObjectInfo of a slot that was just created or adopted.  CreationTime is
\* written once and never read by the pool; it is left out.
NewInfo(P, id, obj) ==
    [PooledObject |-> obj,
     ObjectPoolID |-> id,
     LastTimeActive |->
        TimeSeconds - (IF P.CooldownTimeSeconds > 0
                       THEN P.CooldownTimeSeconds + KINDA_SMALL_NUMBER ELSE 0),
     ObjectCheckoutID |-> Inc16(0 - 1),
     bActive |-> FALSE,
     bIsReclaimable |-> FALSE]

\* CreateNewPoolEntry that gives the new slot the lowest pool id no slot holds.
CreateNewPoolEntry_ReusesID(S, P, bFail) ==
    IF GetPoolNum(S) >= P.PoolLimit \/ P.bAdoptionOnlyPool \/ bFail
    THEN [S |-> S, id |-> InvalidID]
    ELSE LET id == CHOOSE n \in 0..GetPoolNum(S) :
                      n \notin DOMAIN S.ObjectPool
                      /\ \A j \in 0..(n - 1) : j \in DOMAIN S.ObjectPool
         IN [S |-> [S EXCEPT
                      !.ObjectPool = MapAdd(@, id, NewInfo(P, id, id)),
                      !.InactiveObjectIDPool = Append(@, id),
                      !.CurrentPoolIDIndex = id,
                      !.log = Append(@, Event("OnObjectAddedToPool", id, 0, id))],
             id |-> id]

\* CreateNewPoolEntry without its test of bAdoptionOnlyPool.
CreateNewPoolEntry_IgnoresAdoptionOnly(S, P, bFail) ==
    IF GetPoolNum(S) >= P.PoolLimit \/ bFail
    THEN [S |-> S, id |-> InvalidID]
    ELSE LET id == S.CurrentPoolIDIndex + 1 IN
         [S |-> [S EXCEPT
                   !.ObjectPool = MapAdd(@, id, NewInfo(P, id, id)),
                   !.InactiveObjectIDPool = Append(@, id),
                   !.CurrentPoolIDIndex = id,
                   !.log = Append(@, Event("OnObjectAddedToPool", id, 0, id))],
          id |-> id]

\* TBFObjectPool::CreateNewPoolEntry.  bFail: the engine failed to construct the object.
\* id = InvalidID stands for the nullptr result.
CreateNewPoolEntry(S, P, bFail) ==
    IF GetPoolNum(S) >= P.PoolLimit \/ P.bAdoptionOnlyPool \/ bFail
    THEN [S |-> S, id |-> InvalidID]
    ELSE LET id == S.CurrentPoolIDIndex + 1 IN
         [S |-> [S EXCEPT
                   !.ObjectPool = MapAdd(@, id, NewInfo(P, id, id)),
                   !.InactiveObjectIDPool = Append(@, id),
                   !.CurrentPoolIDIndex = id,
                   !.log = Append(@, Event("OnObjectAddedToPool", id, 0, id))],
          id |-> id]

\* Index of the first registry entry of pool id PoolID, 0 if there is none.
ReclaimIndexOf(recl, PoolID) ==
    IF \E k \in 1..Len(recl) : recl[k].PoolID = PoolID
    THEN CHOOSE k \in 1..Len(recl) :
            recl[k].PoolID = PoolID /\ \A j \in 1..(k - 1) : recl[j].PoolID # PoolID
    ELSE 0

\* ReturnToPool_Internal that broadcasts the checkout id the slot has after the return.
ReturnToPool_Internal_NewID(S, PoolID, ObjectCheckoutID, bSkipAddingToInactivePool) ==
    IF PoolID \in DOMAIN S.ObjectPool
       /\ S.ObjectPool[PoolID].ObjectCheckoutID = ObjectCheckoutID
    THEN LET Info == S.ObjectPool[PoolID]
             Index == IF Info.bIsReclaimable
                      THEN ReclaimIndexOf(S.ReclaimableUnpooledObjects, PoolID) ELSE 0
         IN [ok |-> TRUE, removed |-> Index,
             S |-> [S EXCEPT
                      !.ObjectPool[PoolID] =
                          [Info EXCEPT !.ObjectCheckoutID = Inc16(@),
                                       !.bActive = FALSE,
                                       !.bIsReclaimable = IF Index > 0 THEN FALSE ELSE @],
                      !.InactiveObjectIDPool =
                          IF bSkipAddingToInactivePool THEN @ ELSE Append(@, PoolID),
                      !.ReclaimableUnpooledObjects =
                          IF Index > 0 THEN RemoveAtSwap(@, Index) ELSE @,
                      !.log = @ \o << Event("DeactivateObject", PoolID, ObjectCheckoutID,
                                            Info.PooledObject),
                                      Event("OnObjectPooled_Return", PoolID, Inc16(ObjectCheckoutID),
                                            Info.PooledObject) >>]]
    ELSE [ok |-> FALSE, removed |-> 0, S |-> S]

\* TBFObjectPool::ReturnToPool_Internal.  removed: the registry index RemoveAtSwap was
\* applied to, 0 if none.
ReturnToPool_Internal(S, PoolID, ObjectCheckoutID, bSkipAddingToInactivePool) ==
    IF PoolID \in DOMAIN S.ObjectPool
       /\ S.ObjectPool[PoolID].ObjectCheckoutID = ObjectCheckoutID
    THEN LET Info == S.ObjectPool[PoolID]
             Index == IF Info.bIsReclaimable
                      THEN ReclaimIndexOf(S.ReclaimableUnpooledObjects, PoolID) ELSE 0
         IN [ok |-> TRUE, removed |-> Index,
             S |-> [S EXCEPT
                      !.ObjectPool[PoolID] =
                          [Info EXCEPT !.ObjectCheckoutID = Inc16(@),
                                       !.bActive = FALSE,
                                       !.bIsReclaimable = IF Index > 0 THEN FALSE ELSE @],
                      !.InactiveObjectIDPool =
                          IF bSkipAddingToInactivePool THEN @ ELSE Append(@, PoolID),
                      !.ReclaimableUnpooledObjects =
                          IF Index > 0 THEN RemoveAtSwap(@, Index) ELSE @,
                      !.log = @ \o << Event("DeactivateObject", PoolID, ObjectCheckoutID,
                                            Info.PooledObject),
                                      Event("OnObjectPooled_Return", PoolID, ObjectCheckoutID,
                                            Info.PooledObject) >>]]
    ELSE [ok |-> FALSE, removed |-> 0, S |-> S]

\* The statements every unpool path runs on the slot it hands out: bump the checkout
\* id, activate, stamp, register a Reclaimable lease, broadcast.  RegistryID is the
\* pool id the path writes into the new registry entry.
Checkout(S, id, Policy, RegistryID) ==
    LET Info == S.ObjectPool[id]
        gen == Inc16(Info.ObjectCheckoutID)
    IN [S EXCEPT
          !.ObjectPool[id] =
              [Info EXCEPT !.ObjectCheckoutID = gen,
                           !.bActive = TRUE,
                           !.LastTimeActive = TimeSeconds,
                           !.bIsReclaimable = IF Policy = "Reclaimable" THEN TRUE ELSE @],
          !.ReclaimableUnpooledObjects =
              IF Policy = "Reclaimable"
              THEN Append(@, [PoolID |-> RegistryID, CheckoutID |-> gen,
                              TimeUnpooled |-> TimeSeconds])
              ELSE @,
          !.log = @ \o << Event("ActivateObject", id, gen, Info.PooledObject),
                          Event("OnObjectPooled_Unpool", id, gen, Info.PooledObject) >>]

\* The Oldest strategy that takes the first registry entry whatever its time.
OldestIndex_First(recl) == 1

\* The loop of the Oldest strategy from entry I on.  Index is OldestIndex so far, as a
\* position counted from 1; 0 while OldestTime is still the largest float, which
\* every TimeUnpooled is below.
RECURSIVE OldestScan(_, _, _)
OldestScan(recl, I, Index) ==
    IF I > Len(recl) THEN Index
    ELSE OldestScan(recl, I + 1,
                    IF Index = 0 \/ recl[I].TimeUnpooled < recl[Index].TimeUnpooled
                    THEN I ELSE Index)

\* Index the Oldest strategy settles on.
OldestIndex(recl) == OldestScan(recl, 1, 0)

\* TryReclaimUnpooledObject that never finds a lease to force-return.
TryReclaimUnpooledObject_Never(S, P, Rand) == [S |-> S, id |-> InvalidID]

\* TBFObjectPool::TryReclaimUnpooledObject.  Rand: the value FMath::RandRange returns.
TryReclaimUnpooledObject(S, P, Rand) ==
    LET recl == S.ReclaimableUnpooledObjects
        Index == CASE P.ForceReturnReclaimStrategy = "Oldest" -> OldestIndex(recl)
                   [] P.ForceReturnReclaimStrategy = "FirstFound" -> 1
                   [] P.ForceReturnReclaimStrategy = "LastFound" -> Len(recl)
                   [] P.ForceReturnReclaimStrategy = "Random" -> ((Rand - 1) % Len(recl)) + 1
        R == ReturnToPool_Internal(S, recl[Index].PoolID, recl[Index].CheckoutID, TRUE)
    IN IF R.ok THEN [S |-> R.S, id |-> recl[Index].PoolID]
               ELSE [S |-> S, id |-> InvalidID]

\* Where a loop over the inactive list stops: at the first id, in list order, that
\* is not in the map (FindChecked fails there) or is in Passing, the ids of the slots
\* that pass the loop's test; InvalidID if the loop runs to the end.
FirstInactive(S, Passing) ==
    LET ids == S.InactiveObjectIDPool
        Stop(k) == ids[k] \notin DOMAIN S.ObjectPool \/ ids[k] \in Passing
    IN IF \E k \in 1..Len(ids) : Stop(k)
       THEN ids[CHOOSE k \in 1..Len(ids) : Stop(k) /\ \A j \in 1..(k - 1) : ~Stop(j)]
       ELSE InvalidID

\* Result of an unpool call: the store, the pool id handed out (InvalidID for a
\* nullptr handle) and whether the call crashed.
Unpooled(S, id) == [S |-> S, id |-> id, crash |-> FALSE]
CrashedIn(S) == [S |-> S, id |-> InvalidID, crash |-> TRUE]

\* TBFObjectPool::UnpoolObject, after the HasBeenInitialized test.
UnpoolObject(S0, P, Policy, bFail, Rand) ==
    LET Created == CreateNewPoolEntry(S0, P, bFail)
        Reclaimed == TryReclaimUnpooledObject(S0, P, Rand)
        bEmpty == Len(S0.InactiveObjectIDPool) = 0
        bRoom == GetPoolNum(S0) < P.PoolLimit
        S == IF bEmpty /\ bRoom THEN Created.S ELSE S0
        Cooldown == P.CooldownTimeSeconds
        Cooled == {id \in DOMAIN S.ObjectPool :
                      ~(TimeSeconds - S.ObjectPool[id].LastTimeActive < Cooldown)}
        Ready == FirstInactive(S, Cooled)
        Late == CreateNewPoolEntry(S, P, bFail)
    IN
    IF bEmpty /\ bRoom /\ Created.id = InvalidID THEN Unpooled(S0, InvalidID)
    ELSE IF bEmpty /\ ~bRoom THEN
        IF Len(S0.ReclaimableUnpooledObjects) > 0 /\ Reclaimed.id # InvalidID
        THEN Unpooled(Checkout(Reclaimed.S, Reclaimed.id, Policy, Reclaimed.id), Reclaimed.id)
        ELSE Unpooled(S0, InvalidID)
    ELSE IF Cooldown < KINDA_SMALL_NUMBER THEN
        LET id == Last(S.InactiveObjectIDPool)
            S1 == [S EXCEPT !.InactiveObjectIDPool = Pop(@)]
        IN IF id \notin DOMAIN S.ObjectPool THEN CrashedIn(S1)
           ELSE Unpooled(Checkout(S1, id, Policy, id), id)
    ELSE IF Ready # InvalidID THEN
        IF Ready \notin DOMAIN S.ObjectPool THEN CrashedIn(S)
        ELSE LET S1 == Checkout(S, Ready, Policy, Ready)
             IN Unpooled([S1 EXCEPT !.InactiveObjectIDPool = Remove(@, Ready)], Ready)
    ELSE IF GetPoolNum(S) < P.PoolLimit /\ ~P.bAdoptionOnlyPool THEN
        \* *CreateNewPoolEntry() is dereferenced unchecked
        IF Late.id = InvalidID THEN CrashedIn(S)
        ELSE LET S1 == Checkout(Late.S, Late.id, Policy, Late.id)
             IN Unpooled([S1 EXCEPT !.InactiveObjectIDPool = Remove(@, Late.id)], Late.id)
    ELSE Unpooled(S, InvalidID)

\* What a read of freed or overwritten memory may yield besides the old value.
GarbageID == 0 - 99

\* The reclaim loop shared by UnpoolObjectByTag and UnpoolObjectByPredicate: walk the
\* registry in order, force-return the first entry whose object is in Match and whose
\* checkout id is current.  The loop holds a reference UnpooledInfo into the registry
\* array across ReturnToPool_Internal, whose RemoveAtSwap rewrites that array, and
\* reads UnpooledInfo.PoolID again afterwards:
\*   - the array keeps its allocation while it has an element left, so the read
\*     yields what RemoveAtSwap left at that position;
\*   - removing the only element frees the allocation; the read is then of freed
\*     memory and yields the old value (bIntact) or garbage.
ReclaimMatching(S, Match, Policy, bIntact) ==
    LET recl == S.ReclaimableUnpooledObjects
        n == Len(recl)
        Missing(k) == recl[k].PoolID \notin DOMAIN S.ObjectPool
        Hit(k) == /\ ~Missing(k)
                  /\ S.ObjectPool[recl[k].PoolID].PooledObject \in Match
                  /\ S.ObjectPool[recl[k].PoolID].ObjectCheckoutID = recl[k].CheckoutID
        \* FindChecked fails on a registry entry whose slot is gone
        Stop(k) == Missing(k) \/ Hit(k)
    IN IF ~\E k \in 1..n : Stop(k) THEN Unpooled(S, InvalidID)
       ELSE LET i == CHOOSE k \in 1..n : Stop(k) /\ \A j \in 1..(k - 1) : ~Stop(j)
                R == ReturnToPool_Internal(S, recl[i].PoolID, recl[i].CheckoutID, TRUE)
                ReadBack == IF R.removed = 0 THEN recl[i].PoolID
                            ELSE IF n = 1 THEN (IF bIntact THEN recl[i].PoolID ELSE GarbageID)
                            ELSE IF i = R.removed THEN recl[n].PoolID
                            ELSE recl[i].PoolID
                S1 == Checkout(R.S, recl[i].PoolID, Policy, ReadBack)
            IN IF Missing(i) THEN CrashedIn(S)
               ELSE Unpooled([S1 EXCEPT !.InactiveObjectIDPool = Remove(@, ReadBack)],
                             recl[i].PoolID)

\* The inactive-list loop with the reclaim loop run ahead of it.
UnpoolMatching_ReclaimFirst(S, P, Match, Policy, bIntact) ==
    LET Matches == {id \in DOMAIN S.ObjectPool : S.ObjectPool[id].PooledObject \in Match}
        Found == FirstInactive(S, Matches)
        Forced == ReclaimMatching(S, Match, Policy, bIntact)
    IN IF P.CooldownTimeSeconds <= KINDA_SMALL_NUMBER /\ (Forced.crash \/ Forced.id # InvalidID)
       THEN Forced
       ELSE IF Found # InvalidID
       THEN IF Found \notin DOMAIN S.ObjectPool THEN CrashedIn(S)
            ELSE LET S1 == Checkout(S, Found, Policy, Found)
                 IN Unpooled([S1 EXCEPT !.InactiveObjectIDPool = Remove(@, Found)], Found)
       ELSE Unpooled(S, InvalidID)

\* The inactive-list loop shared by UnpoolObjectByTag and UnpoolObjectByPredicate.
UnpoolMatching(S, P, Match, Policy, bIntact) ==
    LET Matches == {id \in DOMAIN S.ObjectPool : S.ObjectPool[id].PooledObject \in Match}
        Found == FirstInactive(S, Matches)
    IN IF Found # InvalidID
       THEN IF Found \notin DOMAIN S.ObjectPool THEN CrashedIn(S)
            ELSE LET S1 == Checkout(S, Found, Policy, Found)
                 IN Unpooled([S1 EXCEPT !.InactiveObjectIDPool = Remove(@, Found)], Found)
       ELSE IF P.CooldownTimeSeconds <= KINDA_SMALL_NUMBER
       THEN ReclaimMatching(S, Match, Policy, bIntact)
       ELSE Unpooled(S, InvalidID)

\* Objects a tag names / a predicate accepts, among every object the model knows.
AllObjects == (0..MaxPoolID) \cup ExternalObjects
ObjectsWithTag(Tag) == {o \in AllObjects : TagOf(o) = Tag}

\* TBFObjectPool::UnpoolObjectByTag, after the HasBeenInitialized and Tag.IsValid tests.
UnpoolObjectByTag(S, P, Tag, Policy, bIntact) ==
    UnpoolMatching(S, P, ObjectsWithTag(Tag), Policy, bIntact)

\* TBFObjectPool::UnpoolObjectByPredicate, after the HasBeenInitialized test.  Pred is
\* the set of objects the predicate accepts.
UnpoolObjectByPredicate(S, P, Pred, Policy, bIntact) ==
    IF Len(S.InactiveObjectIDPool) = 0
    THEN Unpooled(S, InvalidID)
    ELSE UnpoolMatching(S, P, Pred, Policy, bIntact)

\* AdoptObject without its test of the pool limit.
AdoptObject_Unlimited(S, P, Object) ==
    IF ~bHasBeenInitialized \/ Object = NoObject \/ Object = WrongClassObject
    THEN [S |-> S, ok |-> FALSE]
    ELSE LET id == S.CurrentPoolIDIndex + 1 IN
         [S |-> [S EXCEPT
                   !.ObjectPool = MapAdd(@, id, NewInfo(P, id, Object)),
                   !.InactiveObjectIDPool = Append(@, id),
                   !.CurrentPoolIDIndex = id,
                   !.log = Append(@, Event("OnObjectAddedToPool", id, 0, Object))],
          ok |-> TRUE]

\* AdoptObject that adds the slot to the map and not to the inactive list.
AdoptObject_Unlisted(S, P, Object) ==
    IF ~bHasBeenInitialized \/ Object = NoObject \/ GetPoolNum(S) >= P.PoolLimit
       \/ Object = WrongClassObject
    THEN [S |-> S, ok |-> FALSE]
    ELSE LET id == S.CurrentPoolIDIndex + 1 IN
         [S |-> [S EXCEPT
                   !.ObjectPool = MapAdd(@, id, NewInfo(P, id, Object)),
                   !.CurrentPoolIDIndex = id,
                   !.log = Append(@, Event("OnObjectAddedToPool", id, 0, Object))],
          ok |-> TRUE]

\* TBFObjectPool::AdoptObject.  WrongClassObject is not of the pool class.
AdoptObject(S, P, Object) ==
    IF ~bHasBeenInitialized \/ Object = NoObject \/ GetPoolNum(S) >= P.PoolLimit
       \/ Object = WrongClassObject
    THEN [S |-> S, ok |-> FALSE]
    ELSE LET id == S.CurrentPoolIDIndex + 1 IN
         [S |-> [S EXCEPT
                   !.ObjectPool = MapAdd(@, id, NewInfo(P, id, Object)),
                   !.InactiveObjectIDPool = Append(@, id),
                   !.CurrentPoolIDIndex = id,
                   !.log = Append(@, Event("OnObjectAddedToPool", id, 0, Object))],
          ok |-> TRUE]

\* StealObject that hands the object out and leaves its slot in the map.
StealObject_KeepsSlot(S, PoolID, ObjectCheckoutID) ==
    IF bHasBeenInitialized /\ PoolID \in DOMAIN S.ObjectPool
       /\ S.ObjectPool[PoolID].ObjectCheckoutID = ObjectCheckoutID
    THEN [obj |-> S.ObjectPool[PoolID].PooledObject, S |-> S]
    ELSE [obj |-> NoObject, S |-> S]

\* StealObject without its test of the checkout id.
StealObject_AnyCheckoutID(S, PoolID, ObjectCheckoutID) ==
    IF bHasBeenInitialized /\ PoolID \in DOMAIN S.ObjectPool
    THEN LET Info == S.ObjectPool[PoolID]
             Index == ReclaimIndexOf(S.ReclaimableUnpooledObjects, PoolID)
         IN [obj |-> Info.PooledObject,
             S |-> [S EXCEPT
                      !.InactiveObjectIDPool =
                          IF ~Info.bActive THEN RemoveSingle(@, PoolID) ELSE @,
                      !.ReclaimableUnpooledObjects =
                          IF Info.bActive /\ Info.bIsReclaimable /\ Index > 0
                          THEN RemoveAtSwap(@, Index) ELSE @,
                      !.ObjectPool = MapRemove(@, PoolID),
                      !.log = Append(@, Event("OnObjectRemovedFromPool", PoolID,
                                              Info.ObjectCheckoutID, Info.PooledObject))]]
    ELSE [obj |-> NoObject, S |-> S]

\* StealObject that gives the pool id of the stolen slot back to the counter.
StealObject_FreesID(S, PoolID, ObjectCheckoutID) ==
    IF bHasBeenInitialized /\ PoolID \in DOMAIN S.ObjectPool
       /\ S.ObjectPool[PoolID].ObjectCheckoutID = ObjectCheckoutID
    THEN LET Info == S.ObjectPool[PoolID]
             Index == ReclaimIndexOf(S.ReclaimableUnpooledObjects, PoolID)
         IN [obj |-> Info.PooledObject,
             S |-> [S EXCEPT
                      !.InactiveObjectIDPool =
                          IF ~Info.bActive THEN RemoveSingle(@, PoolID) ELSE @,
                      !.ReclaimableUnpooledObjects =
                          IF Info.bActive /\ Info.bIsReclaimable /\ Index > 0
                          THEN RemoveAtSwap(@, Index) ELSE @,
                      !.ObjectPool = MapRemove(@, PoolID),
                      !.CurrentPoolIDIndex = PoolID - 1,
                      !.log = Append(@, Event("OnObjectRemovedFromPool", PoolID,
                                              Info.ObjectCheckoutID, Info.PooledObject))]]
    ELSE [obj |-> NoObject, S |-> S]

\* TBFObjectPool::StealObject(int64 PoolID, int32 ObjectCheckoutID).  obj = NoObject
\* stands for the nullptr result.
\* Info is read once more after ObjectPool.Remove(PoolID): the map keeps the storage of
\* a removed element and rewrites only its key, so the read yields the old fields.
StealObject(S, PoolID, ObjectCheckoutID) ==
    IF bHasBeenInitialized /\ PoolID \in DOMAIN S.ObjectPool
       /\ S.ObjectPool[PoolID].ObjectCheckoutID = ObjectCheckoutID
    THEN LET Info == S.ObjectPool[PoolID]
             Index == ReclaimIndexOf(S.ReclaimableUnpooledObjects, PoolID)
         IN [obj |-> Info.PooledObject,
             S |-> [S EXCEPT
                      !.InactiveObjectIDPool =
                          IF ~Info.bActive THEN RemoveSingle(@, PoolID) ELSE @,
                      !.ReclaimableUnpooledObjects =
                          IF Info.bActive /\ Info.bIsReclaimable /\ Index > 0
                          THEN RemoveAtSwap(@, Index) ELSE @,
                      !.ObjectPool = MapRemove(@, PoolID),
                      !.log = Append(@, Event("OnObjectRemovedFromPool", PoolID,
                                              Info.ObjectCheckoutID, Info.PooledObject))]]
    ELSE [obj |-> NoObject, S |-> S]

\* TBFObjectPool::IsObjectIDValid
IsObjectIDValid(S, PoolID, ObjectCheckoutID) ==
    /\ bHasBeenInitialized
    /\ PoolID \in DOMAIN S.ObjectPool
    /\ S.ObjectPool[PoolID].ObjectCheckoutID = ObjectCheckoutID

\* TBFPooledObjectHandle::IsHandleValid of the handle object H against the store S.
\* The pooled object and the pool outlive every handle of the model.
IsHandleValid(S, H) ==
    /\ ~H.bInvalidated
    /\ H.ObjectPoolID > 0 - 1
    /\ H.ObjectCheckoutID > 0 - 1
    /\ IsObjectIDValid(S, H.ObjectPoolID, H.ObjectCheckoutID)

\* TBFPooledObjectHandle::GetObject(false)
GetObject(S, H) == IF IsHandleValid(S, H) THEN H.PooledObject ELSE NoObject

\* Destroys the inactive slot id: the destroy step, then the removed broadcast.
DestroyEntry(S, id) ==
    [S EXCEPT
       !.ObjectPool = MapRemove(@, id),
       !.log = @ \o << Event("DestroyObject", id, S.ObjectPool[id].ObjectCheckoutID,
                             S.ObjectPool[id].PooledObject),
                       Event("OnObjectRemovedFromPool", id, S.ObjectPool[id].ObjectCheckoutID,
                             S.ObjectPool[id].PooledObject) >>]

\* The loop of TBFObjectPool::RemoveInactiveNumFromPool: pop and destroy Num slots.
\* FindChecked dies on a popped id that is not in the map.
RECURSIVE PopInactive(_, _)
PopInactive(S, Num) ==
    IF Num <= 0 THEN [S |-> S, ok |-> TRUE, crash |-> FALSE]
    ELSE LET S1 == [S EXCEPT !.InactiveObjectIDPool = Pop(@)]
             id == Last(S.InactiveObjectIDPool)
         IN IF id \notin DOMAIN S.ObjectPool THEN [S |-> S1, ok |-> FALSE, crash |-> TRUE]
            ELSE PopInactive(DestroyEntry(S1, id), Num - 1)

\* TBFObjectPool::RemoveInactiveNumFromPool, after the HasBeenInitialized test.
RemoveInactiveNumFromPool(S, NumToRemove) ==
    IF NumToRemove > GetInactivePoolNum(S) THEN [S |-> S, ok |-> FALSE, crash |-> FALSE]
    ELSE PopInactive(S, NumToRemove)

\* The loop of TBFObjectPool::ClearInactiveObjectsPool, in list order; the list is
\* emptied after the loop.
RECURSIVE ClearFrom(_, _)
ClearFrom(S, k) ==
    IF k > Len(S.InactiveObjectIDPool)
    THEN [S |-> [S EXCEPT !.InactiveObjectIDPool = << >>], ok |-> TRUE, crash |-> FALSE]
    ELSE IF S.InactiveObjectIDPool[k] \notin DOMAIN S.ObjectPool
    THEN [S |-> S, ok |-> FALSE, crash |-> TRUE]
    ELSE ClearFrom(DestroyEntry(S, S.InactiveObjectIDPool[k]), k + 1)

\* TBFObjectPool::ClearInactiveObjectsPool, after the HasBeenInitialized test.
ClearInactiveObjectsPool(S) ==
    IF Len(S.InactiveObjectIDPool) = 0 THEN [S |-> S, ok |-> FALSE, crash |-> FALSE]
    ELSE ClearFrom(S, 1)

\* The loop of TBFObjectPool::EvaluatePoolOccupancy: the iterator stays on position k
\* after RemoveCurrentSwap moved the last id into it.  N counts the removals.
RECURSIVE Sweep(_, _, _, _)
Sweep(S, P, k, N) ==
    IF k > Len(S.InactiveObjectIDPool) THEN [S |-> S, ok |-> N > 0, crash |-> FALSE]
    ELSE LET id == S.InactiveObjectIDPool[k] IN
         IF id \notin DOMAIN S.ObjectPool THEN [S |-> S, ok |-> FALSE, crash |-> TRUE]
         ELSE IF TimeSeconds - S.ObjectPool[id].LastTimeActive
                    >= P.MaxObjectInactiveOccupancySeconds
         THEN Sweep([DestroyEntry(S, id) EXCEPT
                        !.InactiveObjectIDPool = RemoveAtSwap(@, k)], P, k, N + 1)
         ELSE Sweep(S, P, k + 1, N)

\* EvaluatePoolOccupancy that looks at nothing and removes nothing.
EvaluatePoolOccupancy_Idle(S, P) == [S |-> S, ok |-> FALSE, crash |-> FALSE]

\* TBFObjectPool::EvaluatePoolOccupancy, after the HasBeenInitialized test.
EvaluatePoolOccupancy(S, P) == Sweep(S, P, 1, 0)

\* TBFObjectPool::SetPoolLimit, after the HasBeenInitialized test.  limit: the new
\* value of PoolInitInfo.PoolLimit.
SetPoolLimit(S, P, PoolLimit) ==
    LET CurrentPoolSize == GetPoolNum(S)
        InactivePoolSize == GetInactivePoolNum(S)
        Trimmed == RemoveInactiveNumFromPool(S, CurrentPoolSize - PoolLimit)
    IN IF PoolLimit = P.PoolLimit
       THEN [S |-> S, ok |-> TRUE, limit |-> P.PoolLimit, crash |-> FALSE]
       ELSE IF PoolLimit > P.PoolLimit
       THEN [S |-> S, ok |-> TRUE, limit |-> PoolLimit, crash |-> FALSE]
       ELSE IF CurrentPoolSize - InactivePoolSize <= PoolLimit
       THEN IF CurrentPoolSize <= PoolLimit
            THEN [S |-> S, ok |-> TRUE, limit |-> PoolLimit, crash |-> FALSE]
            ELSE [S |-> Trimmed.S, ok |-> TRUE, limit |-> PoolLimit, crash |-> Trimmed.crash]
       ELSE [S |-> S, ok |-> FALSE, limit |-> P.PoolLimit, crash |-> FALSE]

\* ------------------------------------------------------------ the handles
\* TBFPooledObjectHandle::TBFPooledObjectHandle.  refs counts the shared pointers to
\* the handle object.
NewHandle(S, id) ==
    [ObjectPoolID |-> S.ObjectPool[id].ObjectPoolID,
     ObjectCheckoutID |-> S.ObjectPool[id].ObjectCheckoutID,
     PooledObject |-> S.ObjectPool[id].PooledObject,
     bInvalidated |-> FALSE,
     refs |-> 1]

\* TBFPooledObjectHandle::Invalidate
Invalidate(H) == [H EXCEPT !.bInvalidated = TRUE]

\* One shared pointer to handle h goes away; the last one runs
\* TBFPooledObjectHandle::~TBFPooledObjectHandle.
ReleaseRef(S, HS, h) ==
    IF HS[h].refs > 1
    THEN [S |-> S, H |-> [HS EXCEPT ![h].refs = @ - 1]]
    ELSE [S |-> IF IsHandleValid(S, HS[h])
                THEN ReturnToPool_Internal(S, HS[h].ObjectPoolID,
                                           HS[h].ObjectCheckoutID, FALSE).S
                ELSE S,
          H |-> MapRemove(HS, h)]

\* ---------------------------------------------------------------- actions
\* What an action explores is bounded by the record B.
Bounded(B, S) ==
    /\ S.CurrentPoolIDIndex <= B.MaxPoolID
    /\ \A id \in DOMAIN S.ObjectPool : S.ObjectPool[id].ObjectCheckoutID <= B.MaxCheckoutID

Commit(B, S) ==
    /\ Bounded(B, S)
    /\ ObjectPool' = S.ObjectPool
    /\ InactiveObjectIDPool' = S.InactiveObjectIDPool
    /\ ReclaimableUnpooledObjects' = S.ReclaimableUnpooledObjects
    /\ CurrentPoolIDIndex' = S.CurrentPoolIDIndex

Config == <<PoolInitInfo, PoolType, WidgetPoolOwnerType, bHasBeenInitialized, bTickEnabled>>

\* The call died: the partial writes stay, nothing runs afterwards.
Crash(B, S) ==
    /\ Commit(B, S)
    /\ bCrashed' = TRUE
    /\ UNCHANGED <<Config, Handles, TimeSeconds>>

\* The call came back to its caller.
Done == bCrashed' = FALSE

\* The engine cannot construct an object: a widget pool whose owner kind is Invalid,
\* or a failed spawn (bFail).
CannotConstruct(Type, OwnerType, bFail) ==
    bFail \/ Type = "Invalid" \/ (Type = "UserWidget" /\ OwnerType = "Invalid")

\* TBFObjectPool::InitPool
RECURSIVE CreateInitial(_, _, _, _)
CreateInitial(S, P, bFail, Count) ==
    IF Count <= 0 THEN S
    ELSE CreateInitial(CreateNewPoolEntry(S, P, bFail).S, P, bFail, Count - 1)

InitPool_On(B, Info) ==
    /\ ~bCrashed
    /\ \E bFail \in BOOLEAN, bShipping \in BOOLEAN :
        LET bRejected ==
                \/ Info.Owner = "None"
                \/ ~Info.bWorld
                \/ GetPoolNum(Store) > 0
                \/ Info.PoolClass = "None"
                \/ Info.InitialCount < 0
                \/ Info.PoolLimit < 1
                \/ Info.InitialCount > Info.PoolLimit
            Type == IF Info.PoolClass = "UserWidget" THEN "UserWidget" ELSE "Actor"
            OwnerType == IF Info.Owner = "PlayerController" THEN "PlayerController"
                         ELSE "Invalid"
            S == CreateInitial(Store, Info, CannotConstruct(Type, OwnerType, bFail),
                               Info.InitialCount)
        IN
        IF bRejected
        THEN \* the diagnostics of a non-shipping build call Info.Owner->GetWorld()
             IF Info.Owner = "None" /\ ~bShipping
             THEN Crash(B, Store)
             ELSE /\ Done
                  /\ UNCHANGED <<ObjectPool, InactiveObjectIDPool, ReclaimableUnpooledObjects,
                                 CurrentPoolIDIndex, Config, Handles, TimeSeconds>>
        ELSE IF Type = "UserWidget" /\ OwnerType = "Invalid"
        THEN /\ PoolType' = Type
             /\ WidgetPoolOwnerType' = OwnerType
             /\ Done
             /\ UNCHANGED <<ObjectPool, InactiveObjectIDPool, ReclaimableUnpooledObjects,
                            CurrentPoolIDIndex, PoolInitInfo, bHasBeenInitialized,
                            bTickEnabled, Handles, TimeSeconds>>
        ELSE /\ Commit(B, S)
             /\ PoolInitInfo' = Info
             /\ PoolType' = Type
             /\ WidgetPoolOwnerType' = IF Type = "UserWidget" THEN OwnerType
                                       ELSE WidgetPoolOwnerType
             /\ bTickEnabled' = Info.bEnableTicking
             /\ bHasBeenInitialized' = TRUE
             /\ Done
             /\ UNCHANGED <<Handles, TimeSeconds>>

InitPool_Call(B) == \E Info \in B.InitChoices : InitPool_On(B, Info)

\* The shared pointers to handle objects the client holds.
RECURSIVE NumPointers(_, _)
NumPointers(HS, ids) ==
    IF ids = {} THEN 0
    ELSE LET h == CHOOSE x \in ids : TRUE
         IN HS[h].refs + NumPointers(HS, ids \ {h})

\* The client holds at most B.MaxRefs shared pointers at a time.
CanHoldAnother(B) == NumPointers(Handles, DOMAIN Handles) < B.MaxRefs

\* The client has let go of every handle whose checkout id is outside
\* 0..B.MaxKeptCheckoutID before it unpools again.
KeepsOnly(B) ==
    \A h \in DOMAIN Handles : Handles[h].ObjectCheckoutID \in 0..B.MaxKeptCheckoutID

\* The lowest unused handle id.
FreeHandle(B) ==
    CHOOSE h \in 1..B.MaxRefs :
        h \notin DOMAIN Handles /\ \A j \in 1..(h - 1) : j \in DOMAIN Handles

\* The end of the three unpool calls: a crash, a nullptr, or a new handle object.
FinishUnpool(B, R) ==
    IF R.crash THEN Crash(B, R.S)
    ELSE IF R.id = InvalidID
    THEN /\ Commit(B, R.S)
         /\ Done
         /\ UNCHANGED <<Config, Handles, TimeSeconds>>
    ELSE /\ CanHoldAnother(B)
         /\ KeepsOnly(B)
         /\ Commit(B, R.S)
         /\ Handles' = MapAdd(Handles, FreeHandle(B), NewHandle(R.S, R.id))
         /\ Done
         /\ UNCHANGED <<Config, TimeSeconds>>

\* A call on a pool that was never initialized: logs and returns nullptr / false.
Refused ==
    /\ Done
    /\ UNCHANGED <<ObjectPool, InactiveObjectIDPool, ReclaimableUnpooledObjects,
                   CurrentPoolIDIndex, Config, Handles, TimeSeconds>>

UnpoolObject_Call(B) ==
    /\ ~bCrashed
    /\ \E Policy \in ReclaimPolicies, bFail \in BOOLEAN, Rand \in 1..MaxPoolLimit :
        IF ~bHasBeenInitialized THEN Refused
        ELSE FinishUnpool(B, UnpoolObject(Store, PoolInitInfo, Policy,
                              CannotConstruct(PoolType, WidgetPoolOwnerType, bFail), Rand))

UnpoolObjectByTag_Call(B) ==
    /\ ~bCrashed
    /\ \E Tag \in Tags, Policy \in ReclaimPolicies, bIntact \in BOOLEAN :
        IF ~bHasBeenInitialized THEN Refused
        ELSE FinishUnpool(B, UnpoolObjectByTag(Store, PoolInitInfo, Tag, Policy, bIntact))

UnpoolObjectByPredicate_Call(B) ==
    /\ ~bCrashed
    /\ \E Pred \in B.Predicates, Policy \in ReclaimPolicies, bIntact \in BOOLEAN :
        IF ~bHasBeenInitialized THEN Refused
        ELSE FinishUnpool(B, UnpoolObjectByPredicate(Store, PoolInitInfo, Pred, Policy, bIntact))

\* Objects the client passes to AdoptObject: one of its own, one the pool already
\* holds, one it got through a handle, a null and an object of another class.
Adoptable ==
    ExternalObjects \cup {ObjectPool[id].PooledObject : id \in DOMAIN ObjectPool}
        \cup {Handles[h].PooledObject : h \in DOMAIN Handles}
        \cup {NoObject, WrongClassObject}

AdoptObject_Call(B) ==
    /\ ~bCrashed
    /\ \E Object \in Adoptable :
        LET R == AdoptObject(Store, PoolInitInfo, Object) IN
        /\ Commit(B, R.S)
        /\ Done
        /\ UNCHANGED <<Config, Handles, TimeSeconds>>

\* TBFObjectPool::StealObject(int64, int32) called with ids of the client's choosing.
StealObjectByID_Call(B) ==
    /\ ~bCrashed
    /\ \E PoolID \in 0..B.MaxPoolID, ObjectCheckoutID \in 0..B.MaxCheckoutID :
        LET R == StealObject(Store, PoolID, ObjectCheckoutID) IN
        /\ Commit(B, R.S)
        /\ Done
        /\ UNCHANGED <<Config, Handles, TimeSeconds>>

\* TBFObjectPool::StealObject(TBFPooledObjectHandlePtr&): steals by the handle's ids,
\* then nulls the caller's shared pointer.
PoolStealObject_On(B, h) ==
    IF ~bHasBeenInitialized THEN Refused
    ELSE LET R == StealObject(Store, Handles[h].ObjectPoolID, Handles[h].ObjectCheckoutID)
             D == ReleaseRef(R.S, Handles, h)
         IN /\ Commit(B, D.S)
            /\ Handles' = D.H
            /\ Done
            /\ UNCHANGED <<Config, TimeSeconds>>

PoolStealObject_Call(B) == ~bCrashed /\ \E h \in DOMAIN Handles : PoolStealObject_On(B, h)

\* TBFObjectPool::ReturnToPool(TBFPooledObjectHandlePtr&) with a non-null pointer.
\* The guard `!Handle.IsValid() && !Handle->IsHandleValid()` is false for every
\* non-null pointer, so no handle is turned away.  FindChecked dies on a pool id
\* that left the map.  The checkout id is bumped before Handle->GetObject() is
\* evaluated, so GetObject() answers for the bumped id; when it answers nullptr,
\* DeactivateObject dereferences it.
PoolReturnToPool_On(B, h) ==
    LET H == Handles[h]
        id == H.ObjectPoolID
        S1 == [Store EXCEPT !.ObjectPool[id].ObjectCheckoutID = Inc16(@)]
        Obj == GetObject(S1, H)
        Info == S1.ObjectPool[id]
        Index == IF Info.bIsReclaimable
                 THEN ReclaimIndexOf(S1.ReclaimableUnpooledObjects, id) ELSE 0
        S2 == [S1 EXCEPT
                 !.ObjectPool[id].bActive = FALSE,
                 !.ObjectPool[id].bIsReclaimable = IF Index > 0 THEN FALSE ELSE @,
                 !.InactiveObjectIDPool = Append(@, id),
                 !.ReclaimableUnpooledObjects =
                     IF Index > 0 THEN RemoveAtSwap(@, Index) ELSE @,
                 !.log = << Event("DeactivateObject", id, H.ObjectCheckoutID, Obj),
                            Event("OnObjectPooled_Return", id,
                                  Info.ObjectCheckoutID - 1, Info.PooledObject) >>]
        D == ReleaseRef(S2, Handles, h)
    IN
    IF ~bHasBeenInitialized THEN Refused
    ELSE IF id \notin DOMAIN ObjectPool THEN Crash(B, Store)
    ELSE IF Obj = NoObject
    THEN Crash(B, [S1 EXCEPT !.log = << Event("DeactivateObject", id, H.ObjectCheckoutID,
                                           NoObject) >>])
    ELSE /\ Commit(B, D.S)
         /\ Handles' = D.H
         /\ Done
         /\ UNCHANGED <<Config, TimeSeconds>>

PoolReturnToPool_Call(B) == ~bCrashed /\ \E h \in DOMAIN Handles : PoolReturnToPool_On(B, h)

\* TBFPooledObjectHandle::ReturnToPool through one of the shared pointers to h.
HandleReturnToPool_On(B, h) ==
    LET H == Handles[h]
        R == ReturnToPool_Internal(Store, H.ObjectPoolID, H.ObjectCheckoutID, FALSE)
    IN IF IsHandleValid(Store, H)
       THEN /\ Commit(B, R.S)
            /\ Handles' = [Handles EXCEPT ![h] = Invalidate(H)]
            /\ Done
            /\ UNCHANGED <<Config, TimeSeconds>>
       ELSE /\ Done
            /\ UNCHANGED <<ObjectPool, InactiveObjectIDPool, ReclaimableUnpooledObjects,
                           CurrentPoolIDIndex, Config, Handles, TimeSeconds>>

HandleReturnToPool_Call(B) == ~bCrashed /\ \E h \in DOMAIN Handles : HandleReturnToPool_On(B, h)

\* TBFPooledObjectHandle::StealObject through one of the shared pointers to h.
HandleStealObject_On(B, h) ==
    LET H == Handles[h]
        R == StealObject(Store, H.ObjectPoolID, H.ObjectCheckoutID)
    IN IF IsHandleValid(Store, H)
       THEN /\ Commit(B, R.S)
            /\ Handles' = [Handles EXCEPT ![h] = Invalidate(H)]
            /\ Done
            /\ UNCHANGED <<Config, TimeSeconds>>
       ELSE /\ Done
            /\ UNCHANGED <<ObjectPool, InactiveObjectIDPool, ReclaimableUnpooledObjects,
                           CurrentPoolIDIndex, Config, Handles, TimeSeconds>>

HandleStealObject_Call(B) == ~bCrashed /\ \E h \in DOMAIN Handles : HandleStealObject_On(B, h)

\* The client copies a shared pointer to handle h.
CopyHandle_On(B, h) ==
    /\ CanHoldAnother(B)
    /\ Handles' = [Handles EXCEPT ![h].refs = @ + 1]
    /\ Done
    /\ UNCHANGED <<ObjectPool, InactiveObjectIDPool, ReclaimableUnpooledObjects,
                   CurrentPoolIDIndex, Config, TimeSeconds>>

CopyHandle(B) == ~bCrashed /\ \E h \in DOMAIN Handles : CopyHandle_On(B, h)

\* The client lets go of one shared pointer to handle h.
DropHandle_On(B, h) ==
    LET D == ReleaseRef(Store, Handles, h) IN
    /\ Commit(B, D.S)
    /\ Handles' = D.H
    /\ Done
    /\ UNCHANGED <<Config, TimeSeconds>>

DropHandle(B) == ~bCrashed /\ \E h \in DOMAIN Handles : DropHandle_On(B, h)

\* The end of the maintenance calls: a crash or a boolean result.
FinishMaintenance(B, R) ==
    IF R.crash THEN Crash(B, R.S)
    ELSE /\ Commit(B, R.S)
         /\ Done
         /\ UNCHANGED <<Config, Handles, TimeSeconds>>

ClearInactiveObjectsPool_Call(B) ==
    /\ ~bCrashed
    /\ IF ~bHasBeenInitialized THEN Refused
       ELSE FinishMaintenance(B, ClearInactiveObjectsPool(Store))

RemoveInactiveNumFromPool_Call(B) ==
    /\ ~bCrashed
    /\ \E NumToRemove \in 0..(B.MaxPoolLimit + 1) :
        IF ~bHasBeenInitialized THEN Refused
        ELSE FinishMaintenance(B, RemoveInactiveNumFromPool(Store, NumToRemove))

EvaluatePoolOccupancy_Call(B) ==
    /\ ~bCrashed
    /\ IF ~bHasBeenInitialized THEN Refused
       ELSE FinishMaintenance(B, EvaluatePoolOccupancy(Store, PoolInitInfo))

\* TBFObjectPool::Tick, called by the container's tick function while it is enabled.
Tick(B) ==
    /\ ~bCrashed
    /\ bTickEnabled
    /\ IF PoolInitInfo.MaxObjectInactiveOccupancySeconds > 0
       THEN FinishMaintenance(B, EvaluatePoolOccupancy(Store, PoolInitInfo))
       ELSE FinishMaintenance(B, [S |-> Store, ok |-> FALSE, crash |-> FALSE])

SetPoolLimit_Call(B) ==
    /\ ~bCrashed
    /\ \E PoolLimit \in (0 - 1)..B.MaxPoolLimit :
        LET R == SetPoolLimit(Store, PoolInitInfo, PoolLimit) IN
        IF ~bHasBeenInitialized THEN Refused
        ELSE IF R.crash THEN Crash(B, R.S)
        ELSE /\ Commit(B, R.S)
             /\ PoolInitInfo' = [PoolInitInfo EXCEPT !.PoolLimit = R.limit]
             /\ Done
             /\ UNCHANGED <<PoolType, WidgetPoolOwnerType, bHasBeenInitialized, bTickEnabled,
                            Handles, TimeSeconds>>

SetMaxObjectInactiveOccupancySeconds_Call(B) ==
    /\ ~bCrashed
    /\ \E Seconds \in B.OccupancyChoices :
        IF ~bHasBeenInitialized
        THEN Refused
        ELSE /\ bTickEnabled' = (Seconds > 0)
             /\ PoolInitInfo' = [PoolInitInfo EXCEPT !.MaxObjectInactiveOccupancySeconds =
                                    IF Seconds > 0 THEN Seconds ELSE 0 - 1]
             /\ Done
             /\ UNCHANGED <<ObjectPool, InactiveObjectIDPool, ReclaimableUnpooledObjects,
                            CurrentPoolIDIndex, PoolType, WidgetPoolOwnerType,
                            bHasBeenInitialized, Handles, TimeSeconds>>

SetTickEnabled_Call(B) ==
    /\ ~bCrashed
    /\ \E bEnable \in BOOLEAN :
        IF ~bHasBeenInitialized THEN Refused
        ELSE /\ bTickEnabled' = bEnable
             /\ Done
             /\ UNCHANGED <<ObjectPool, InactiveObjectIDPool, ReclaimableUnpooledObjects,
                            CurrentPoolIDIndex, PoolInitInfo, PoolType, WidgetPoolOwnerType,
                            bHasBeenInitialized, Handles, TimeSeconds>>

\* The world clock moves on by one KINDA_SMALL_NUMBER.
AdvanceTime(B) ==
    /\ ~bCrashed
    /\ TimeSeconds < B.MaxTime
    /\ TimeSeconds' = TimeSeconds + KINDA_SMALL_NUMBER
    /\ Done
    /\ UNCHANGED <<ObjectPool, InactiveObjectIDPool, ReclaimableUnpooledObjects,
                   CurrentPoolIDIndex, Config, Handles>>

\* ---------------------------------------------------------- specification
\* A configuration InitPool accepts for an actor pool owned by an actor.
ActorPool(PoolLimit, InitialCount, Cooldown, MaxOccupancy, Strategy, bAdoptionOnly) ==
    InitParams("Actor", TRUE, "Actor", PoolLimit, InitialCount, Cooldown, MaxOccupancy,
               MaxOccupancy > 0, Strategy, bAdoptionOnly)

\* The configurations the client passes to InitPool: accepted ones, and one per
\* reason InitPool has to turn a configuration down.
InitChoices ==
    {ActorPool(MaxPoolLimit, 0, 0 - 1, 0 - 1, "Oldest", FALSE),
     ActorPool(1, 1, 0 - 1, 1, "Random", FALSE),
     InitParams("None", TRUE, "Actor", 1, 0, 0 - 1, 0 - 1, FALSE, "Oldest", FALSE),
     InitParams("Actor", FALSE, "Actor", 1, 0, 0 - 1, 0 - 1, FALSE, "Oldest", FALSE),
     InitParams("Actor", TRUE, "None", 1, 0, 0 - 1, 0 - 1, FALSE, "Oldest", FALSE),
     InitParams("Actor", TRUE, "Actor", 1, 0 - 1, 0 - 1, 0 - 1, FALSE, "Oldest", FALSE),
     InitParams("Actor", TRUE, "Actor", 0, 0, 0 - 1, 0 - 1, FALSE, "Oldest", FALSE),
     InitParams("Actor", TRUE, "Actor", 1, 2, 0 - 1, 0 - 1, FALSE, "Oldest", FALSE)}

Bounds(PoolLimit, PoolID, CheckoutID, KeptCheckoutID, Time, Refs, Choices) ==
    [MaxPoolLimit |-> PoolLimit,
     MaxPoolID |-> PoolID,
     MaxCheckoutID |-> CheckoutID,
     MaxKeptCheckoutID |-> KeptCheckoutID,
     MaxTime |-> Time,
     MaxRefs |-> Refs,
     InitChoices |-> Choices,
     Predicates |-> {ObjectsWithTag(0), AllObjects},
     OccupancyChoices |-> {0 - 1, 1}]

\* Every operation of the pool and of its handles.
MainBounds ==
    Bounds(MaxPoolLimit, MaxPoolID, MaxCheckoutID, MaxCheckoutID, MaxTime, MaxRefs, InitChoices)

Next ==
    \/ InitPool_Call(MainBounds)
    \/ UnpoolObject_Call(MainBounds)
    \/ UnpoolObjectByTag_Call(MainBounds)
    \/ UnpoolObjectByPredicate_Call(MainBounds)
    \/ AdoptObject_Call(MainBounds)
    \/ StealObjectByID_Call(MainBounds)
    \/ PoolStealObject_Call(MainBounds)
    \/ PoolReturnToPool_Call(MainBounds)
    \/ HandleReturnToPool_Call(MainBounds)
    \/ HandleStealObject_Call(MainBounds)
    \/ CopyHandle(MainBounds)
    \/ DropHandle(MainBounds)
    \/ ClearInactiveObjectsPool_Call(MainBounds)
    \/ RemoveInactiveNumFromPool_Call(MainBounds)
    \/ EvaluatePoolOccupancy_Call(MainBounds)
    \/ Tick(MainBounds)
    \/ SetPoolLimit_Call(MainBounds)
    \/ SetMaxObjectInactiveOccupancySeconds_Call(MainBounds)
    \/ SetTickEnabled_Call(MainBounds)
    \/ AdvanceTime(MainBounds)

Spec == Init /\ [][Next]_vars

\* The leases of one pool without cooldown: unpooling, and every way a lease ends
\* through a handle or through the pool, over more checkout ids and handles.
LeaseBounds ==
    Bounds(MaxPoolLimit, MaxPoolID, MaxLeaseCheckoutID, MaxLeaseCheckoutID, 0, MaxLeaseRefs,
           {ActorPool(MaxPoolLimit, 0, 0 - 1, 0 - 1, "Oldest", FALSE)})

NextLease ==
    \/ InitPool_Call(LeaseBounds)
    \/ UnpoolObject_Call(LeaseBounds)
    \/ UnpoolObjectByTag_Call(LeaseBounds)
    \/ UnpoolObjectByPredicate_Call(LeaseBounds)
    \/ PoolStealObject_Call(LeaseBounds)
    \/ PoolReturnToPool_Call(LeaseBounds)
    \/ HandleReturnToPool_Call(LeaseBounds)
    \/ HandleStealObject_Call(LeaseBounds)
    \/ CopyHandle(LeaseBounds)
    \/ DropHandle(LeaseBounds)

SpecLease == Init /\ [][NextLease]_vars

\* Unpooling and returning only, over the checkout ids a slot goes through when it
\* is force-returned twice.
ReclaimBounds ==
    Bounds(MaxPoolLimit, MaxPoolID, MaxReclaimCheckoutID, MaxReclaimCheckoutID, 0,
           MaxLeaseRefs, {ActorPool(MaxPoolLimit, 0, 0 - 1, 0 - 1, "Oldest", FALSE)})

NextReclaim ==
    \/ InitPool_Call(ReclaimBounds)
    \/ UnpoolObject_Call(ReclaimBounds)
    \/ UnpoolObjectByTag_Call(ReclaimBounds)
    \/ UnpoolObjectByPredicate_Call(ReclaimBounds)
    \/ HandleReturnToPool_Call(ReclaimBounds)
    \/ DropHandle(ReclaimBounds)

SpecReclaim == Init /\ [][NextReclaim]_vars

\* One slot over the whole range of its 16-bit checkout id.  The client keeps the
\* handle of the slot's first lease and lets go of every later one before it
\* unpools again.
WrapBounds ==
    Bounds(1, 0, INT16_MAX, 1, 0, MaxWrapRefs,
           {ActorPool(1, 0, 0 - 1, 0 - 1, "Oldest", FALSE)})

NextWrap ==
    \/ InitPool_Call(WrapBounds)
    \/ UnpoolObject_Call(WrapBounds)
    \/ DropHandle(WrapBounds)

SpecWrap == Init /\ [][NextWrap]_vars

\* One pool with a cooldown, the clock, plain UnpoolObject and the two ways a handle
\* returns its lease.
CooldownBounds ==
    Bounds(MaxPoolLimit, MaxPoolID, MaxLeaseCheckoutID, MaxLeaseCheckoutID, MaxCooldownTime,
           MaxRefs, {ActorPool(MaxPoolLimit, 0, CooldownSeconds, 0 - 1, "Oldest", FALSE),
                     ActorPool(1, 1, CooldownSeconds, 0 - 1, "Oldest", FALSE)})

NextCooldown ==
    \/ InitPool_Call(CooldownBounds)
    \/ UnpoolObject_Call(CooldownBounds)
    \/ HandleReturnToPool_Call(CooldownBounds)
    \/ DropHandle(CooldownBounds)
    \/ AdvanceTime(CooldownBounds)

SpecCooldown == Init /\ [][NextCooldown]_vars

\* The pool with a cooldown again, with the two matching unpool calls next to plain
\* UnpoolObject.
NextCooldownMatch ==
    \/ InitPool_Call(CooldownBounds)
    \/ UnpoolObject_Call(CooldownBounds)
    \/ UnpoolObjectByTag_Call(CooldownBounds)
    \/ UnpoolObjectByPredicate_Call(CooldownBounds)
    \/ HandleReturnToPool_Call(CooldownBounds)
    \/ DropHandle(CooldownBounds)
    \/ AdvanceTime(CooldownBounds)

SpecCooldownMatch == Init /\ [][NextCooldownMatch]_vars

\* Three slots, the clock and the eviction sweep: leases begin and end through
\* UnpoolObject and the handles, and slots that stay inactive too long are destroyed.
SweepBounds ==
    Bounds(MaxSweepPoolLimit, MaxSweepPoolID, MaxCheckoutID, MaxCheckoutID, MaxSweepTime, MaxRefs,
           {ActorPool(MaxSweepPoolLimit, MaxSweepPoolLimit, 0 - 1, SweepOccupancySeconds,
                      "Oldest", FALSE)})

NextSweep ==
    \/ InitPool_Call(SweepBounds)
    \/ UnpoolObject_Call(SweepBounds)
    \/ HandleReturnToPool_Call(SweepBounds)
    \/ HandleStealObject_Call(SweepBounds)
    \/ DropHandle(SweepBounds)
    \/ EvaluatePoolOccupancy_Call(SweepBounds)
    \/ SetPoolLimit_Call(SweepBounds)
    \/ AdvanceTime(SweepBounds)

SpecSweep == Init /\ [][NextSweep]_vars

\* The eviction sweep as the engine drives it: the container's tick function calls
\* Tick once per tick interval for as long as ticking is enabled, and the world's
\* clock keeps advancing, so neither stays enabled forever without being taken.
LiveBounds ==
    Bounds(MaxPoolLimit, MaxPoolID, MaxCheckoutID, MaxCheckoutID, MaxLiveTime, MaxRefs,
           {ActorPool(MaxPoolLimit, MaxPoolLimit, 0 - 1, SweepOccupancySeconds, "Oldest", FALSE)})

NextLive ==
    \/ InitPool_Call(LiveBounds)
    \/ UnpoolObject_Call(LiveBounds)
    \/ HandleReturnToPool_Call(LiveBounds)
    \/ DropHandle(LiveBounds)
    \/ Tick(LiveBounds)
    \/ AdvanceTime(LiveBounds)

SpecLive ==
    /\ Init
    /\ [][NextLive]_vars
    /\ WF_vars(Tick(LiveBounds))
    /\ WF_vars(AdvanceTime(LiveBounds))

\* A pool that can be initialised adoption-only (with an InitialCount above 0) or as a
\* pool that constructs its own objects, under every call that hands objects out,
\* takes them in or removes them.
AdoptionBounds ==
    Bounds(MaxPoolLimit, MaxPoolID, MaxCheckoutID, MaxCheckoutID, MaxTime, MaxRefs,
           {ActorPool(MaxPoolLimit, 1, 0 - 1, 0 - 1, "Oldest", TRUE),
            ActorPool(MaxPoolLimit, 0, 0 - 1, 0 - 1, "Oldest", FALSE)})

NextAdoption ==
    \/ InitPool_Call(AdoptionBounds)
    \/ UnpoolObject_Call(AdoptionBounds)
    \/ UnpoolObjectByTag_Call(AdoptionBounds)
    \/ UnpoolObjectByPredicate_Call(AdoptionBounds)
    \/ AdoptObject_Call(AdoptionBounds)
    \/ HandleReturnToPool_Call(AdoptionBounds)
    \/ HandleStealObject_Call(AdoptionBounds)
    \/ DropHandle(AdoptionBounds)
    \/ ClearInactiveObjectsPool_Call(AdoptionBounds)
    \/ SetPoolLimit_Call(AdoptionBounds)

SpecAdoption == Init /\ [][NextAdoption]_vars

\* InitPool called again and again on a pool that is emptied in between, with
\* configurations it accepts (an actor pool, a widget pool owned by a player
\* controller) and configurations it turns down, one of them a widget pool whose owner
\* is of no kind a widget can be created for.
ReinitBounds ==
    Bounds(MaxPoolLimit, MaxPoolID, MaxCheckoutID, MaxCheckoutID, MaxTime, MaxRefs,
           {ActorPool(MaxPoolLimit, 1, 0 - 1, 0 - 1, "Oldest", FALSE),
            InitParams("PlayerController", TRUE, "UserWidget", MaxPoolLimit, 1, 0 - 1, 0 - 1,
                       FALSE, "Oldest", FALSE),
            InitParams("Actor", TRUE, "UserWidget", MaxPoolLimit, 1, 0 - 1, 0 - 1,
                       FALSE, "Oldest", FALSE),
            InitParams("None", TRUE, "Actor", MaxPoolLimit, 1, 0 - 1, 0 - 1, FALSE, "Oldest", FALSE),
            InitParams("Actor", TRUE, "Actor", 1, 2, 0 - 1, 0 - 1, FALSE, "Oldest", FALSE)})

NextReinit ==
    \/ InitPool_Call(ReinitBounds)
    \/ UnpoolObject_Call(ReinitBounds)
    \/ HandleReturnToPool_Call(ReinitBounds)
    \/ HandleStealObject_Call(ReinitBounds)
    \/ DropHandle(ReinitBounds)
    \/ ClearInactiveObjectsPool_Call(ReinitBounds)

SpecReinit == Init /\ [][NextReinit]_vars

\* Three slots with a cooldown shorter than the eviction threshold: leases begin
\* through the three unpool calls and end through the handles, the sweep runs and the
\* clock advances.
CooldownSweepBounds ==
    Bounds(MaxSweepPoolLimit, MaxSweepPoolID, MaxCheckoutID, MaxCheckoutID, MaxSweepTime, MaxRefs,
           {ActorPool(MaxSweepPoolLimit, MaxSweepPoolLimit, SweepCooldownSeconds,
                      SweepOccupancySeconds, "Oldest", FALSE)})

NextCooldownSweep ==
    \/ InitPool_Call(CooldownSweepBounds)
    \/ UnpoolObject_Call(CooldownSweepBounds)
    \/ UnpoolObjectByTag_Call(CooldownSweepBounds)
    \/ UnpoolObjectByPredicate_Call(CooldownSweepBounds)
    \/ HandleReturnToPool_Call(CooldownSweepBounds)
    \/ DropHandle(CooldownSweepBounds)
    \/ EvaluatePoolOccupancy_Call(CooldownSweepBounds)
    \/ AdvanceTime(CooldownSweepBounds)

SpecCooldownSweep == Init /\ [][NextCooldownSweep]_vars

\* The pool of SpecReclaim with an eviction threshold and a clock: leases are
\* force-returned by UnpoolObjectByTag and end when the client lets go of the handle,
\* and slots grow old.
ReclaimSweepBounds ==
    Bounds(MaxPoolLimit, MaxPoolID, MaxReclaimCheckoutID, MaxReclaimCheckoutID, MaxSweepTime,
           MaxLeaseRefs, {ActorPool(MaxPoolLimit, 0, 0 - 1, SweepOccupancySeconds, "Oldest", FALSE)})

NextReclaimSweep ==
    \/ InitPool_Call(ReclaimSweepBounds)
    \/ UnpoolObject_Call(ReclaimSweepBounds)
    \/ UnpoolObjectByTag_Call(ReclaimSweepBounds)
    \/ DropHandle(ReclaimSweepBounds)
    \/ EvaluatePoolOccupancy_Call(ReclaimSweepBounds)
    \/ AdvanceTime(ReclaimSweepBounds)

SpecReclaimSweep == Init /\ [][NextReclaimSweep]_vars

\* Three slots handed out on Reclaimable and NonReclaimable leases at different
\* times under the Oldest strategy, without cooldown or eviction.
OldestBounds ==
    Bounds(MaxSweepPoolLimit, MaxSweepPoolID, MaxCheckoutID, MaxCheckoutID, MaxSweepTime,
           MaxLeaseRefs, {ActorPool(MaxSweepPoolLimit, 0, 0 - 1, 0 - 1, "Oldest", FALSE)})

NextOldest ==
    \/ InitPool_Call(OldestBounds)
    \/ UnpoolObject_Call(OldestBounds)
    \/ HandleReturnToPool_Call(OldestBounds)
    \/ DropHandle(OldestBounds)
    \/ AdvanceTime(OldestBounds)

SpecOldest == Init /\ [][NextOldest]_vars

\* ------------------------------------------------------------------ claims
ActiveIDs(S) == {id \in DOMAIN S.ObjectPool : S.ObjectPool[id].bActive}
InactiveIDs(S) == {id \in DOMAIN S.ObjectPool : ~S.ObjectPool[id].bActive}

\* The handles a step hands out.
NewHandles == DOMAIN Handles' \ DOMAIN Handles

\* The lease handle H was issued for is still running: its slot is in the map, is
\* active and carries H's checkout id, and nothing was returned or stolen through H.
LeaseLive(S, H) ==
    /\ ~H.bInvalidated
    /\ H.ObjectPoolID \in DOMAIN S.ObjectPool
    /\ S.ObjectPool[H.ObjectPoolID].bActive
    /\ S.ObjectPool[H.ObjectPoolID].ObjectCheckoutID = H.ObjectCheckoutID

\* C1: for every pool id, at most one of the handles issued for it satisfies
\* IsHandleValid().
C1_OneValidHandlePerPoolID ==
    \A h1 \in DOMAIN Handles, h2 \in DOMAIN Handles :
        /\ h1 # h2
        /\ Handles[h1].ObjectPoolID = Handles[h2].ObjectPoolID
        /\ IsHandleValid(Store, Handles[h1])
        => ~IsHandleValid(Store, Handles[h2])

\* C2: TBFObjectPool::ReturnToPool called with a handle whose lease is over comes
\* back to its caller and leaves the slots, the inactive list and the registry as
\* they were.
C2_StaleReturnChangesNothing ==
    [][\A h \in DOMAIN Handles :
          /\ bHasBeenInitialized
          /\ ~LeaseLive(Store, Handles[h])
          /\ PoolReturnToPool_On(LeaseBounds, h)
          => /\ ~bCrashed'
             /\ UNCHANGED <<ObjectPool, InactiveObjectIDPool,
                            ReclaimableUnpooledObjects>>]_vars

\* C3: letting go of the last pointer to a handle whose lease is live makes the slot
\* inactive, bumps its checkout id, appends its pool id to the inactive list and
\* removes the registry entry of that lease, and changes nothing else in the pool; letting go of
\* the last pointer to a handle whose lease is over changes nothing in the pool.
C3_LastDropReturnsOnce ==
    [][\A h \in DOMAIN Handles :
          Handles[h].refs = 1 /\ DropHandle_On(WrapBounds, h)
          => LET id == Handles[h].ObjectPoolID IN
             IF LeaseLive(Store, Handles[h])
             THEN /\ DOMAIN ObjectPool' = DOMAIN ObjectPool
                  /\ ~ObjectPool'[id].bActive
                  /\ ObjectPool'[id].ObjectCheckoutID = Inc16(ObjectPool[id].ObjectCheckoutID)
                  /\ \A other \in DOMAIN ObjectPool \ {id} :
                        ObjectPool'[other] = ObjectPool[other]
                  /\ InactiveObjectIDPool' = Append(InactiveObjectIDPool, id)
                  /\ \A k \in 1..Len(ReclaimableUnpooledObjects') :
                        ~(/\ ReclaimableUnpooledObjects'[k].PoolID = id
                          /\ ReclaimableUnpooledObjects'[k].CheckoutID
                                = Handles[h].ObjectCheckoutID)
                  /\ Len(ReclaimableUnpooledObjects') >= Len(ReclaimableUnpooledObjects) - 1
             ELSE UNCHANGED <<ObjectPool, InactiveObjectIDPool, ReclaimableUnpooledObjects,
                              CurrentPoolIDIndex>>]_vars

\* Handle h was returned or stolen: its flag is set or its slot left the map.
Ended(h) == Handles[h].bInvalidated \/ Handles[h].ObjectPoolID \notin DOMAIN ObjectPool

\* This step returns or steals the live lease of handle h, through the handle or
\* through the pool, and comes back to its caller.
ReturnsOrSteals(h) ==
    /\ LeaseLive(Store, Handles[h])
    /\ ~bCrashed'
    /\ \/ HandleReturnToPool_On(LeaseBounds, h)
       \/ HandleStealObject_On(LeaseBounds, h)
       \/ PoolReturnToPool_On(LeaseBounds, h)
       \/ PoolStealObject_On(LeaseBounds, h)

\* C4: once a live lease was returned or stolen through its handle or through the
\* pool, every remaining pointer to that handle sees IsHandleValid() false and
\* GetObject() nullptr, in the state after the call and in every later state.
\* (TBFObjectPool::ReturnToPool never comes back from a call on a live lease, so
\* the leases that end here end through the handle or through StealObject.)
C4_ReturnedOrStolenStaysInvalid ==
    [][\A h \in DOMAIN Handles \cap DOMAIN Handles' :
          ReturnsOrSteals(h) \/ Ended(h)
          => /\ Ended(h)'
             /\ ~IsHandleValid(Store, Handles[h])'
             /\ GetObject(Store, Handles[h])' = NoObject]_vars

\* C4 witness: a handle with two pointers left was returned through, and its slot is
\* leased again under a handle that is valid.
C4_Witness ==
    \E h1 \in DOMAIN Handles, h2 \in DOMAIN Handles :
        /\ Handles[h1].refs >= 2
        /\ Handles[h1].bInvalidated
        /\ Handles[h2].ObjectPoolID = Handles[h1].ObjectPoolID
        /\ IsHandleValid(Store, Handles[h2])

\* C5: every handle an unpool call returns satisfies IsHandleValid() when it is
\* returned, whatever the number of earlier checkouts of its slot.
C5_NewHandleIsValid ==
    [][\A h \in NewHandles : IsHandleValid(Store, Handles[h])']_vars

\* C6: a step that changes a slot's active flag strictly increases the slot's
\* checkout id, and no step decreases it.
C6_CheckoutIDIncreases ==
    [][\A id \in DOMAIN ObjectPool \cap DOMAIN ObjectPool' :
          /\ ObjectPool'[id].ObjectCheckoutID >= ObjectPool[id].ObjectCheckoutID
          /\ ObjectPool'[id].bActive # ObjectPool[id].bActive
                => ObjectPool'[id].ObjectCheckoutID > ObjectPool[id].ObjectCheckoutID]_vars

\* C7: after every public operation that completes, GetPoolNum() <= GetPoolLimit().
C7_PoolNumWithinLimit == ~bCrashed => GetPoolNum(Store) <= GetPoolLimit

\* C7 witness: the pool is full at a limit below the largest one, after a second slot
\* had been created.
C7_Witness ==
    /\ ~bCrashed /\ bHasBeenInitialized
    /\ GetPoolLimit < MaxPoolLimit
    /\ GetPoolNum(Store) = GetPoolLimit
    /\ CurrentPoolIDIndex >= GetPoolLimit

\* C8: after every public operation the inactive-ID list holds exactly the pool ids of
\* the slots whose active flag is false, each once, and GetActivePoolNum() is the
\* non-negative number of active slots.
C8_InactiveListExact ==
    ~bCrashed =>
        /\ Range(InactiveObjectIDPool) = InactiveIDs(Store)
        /\ Len(InactiveObjectIDPool) = Cardinality(InactiveIDs(Store))
        /\ GetActivePoolNum(Store) + GetInactivePoolNum(Store) = GetPoolNum(Store)
        /\ GetActivePoolNum(Store) >= 0
        /\ GetActivePoolNum(Store) = Cardinality(ActiveIDs(Store))

\* No read of freed memory has left its value in the registry.
NoGarbageRead ==
    \A k \in 1..Len(ReclaimableUnpooledObjects) :
        ReclaimableUnpooledObjects[k].PoolID # GarbageID

\* C9: after every public operation the registry holds exactly one entry per active
\* slot whose reclaimable flag is set, carrying that slot's pool id and checkout id,
\* and no other entry; stated for the runs in which every read found the value that
\* was last written.
C9_RegistryMirrorsReclaimable ==
    ~bCrashed /\ NoGarbageRead =>
        /\ \A k \in 1..Len(ReclaimableUnpooledObjects) :
             LET E == ReclaimableUnpooledObjects[k] IN
             /\ E.PoolID \in DOMAIN ObjectPool
             /\ ObjectPool[E.PoolID].bActive
             /\ ObjectPool[E.PoolID].bIsReclaimable
             /\ ObjectPool[E.PoolID].ObjectCheckoutID = E.CheckoutID
             /\ \A j \in 1..(k - 1) : ReclaimableUnpooledObjects[j].PoolID # E.PoolID
        /\ \A id \in DOMAIN ObjectPool :
             ObjectPool[id].bActive /\ ObjectPool[id].bIsReclaimable
                => \E k \in 1..Len(ReclaimableUnpooledObjects) :
                      ReclaimableUnpooledObjects[k].PoolID = id

\* C10: with a cooldown above zero, the slot of every handle UnpoolObject returns was
\* created by that call or had been inactive for at least the cooldown before it.
C10_UnpoolRespectsCooldown ==
    [][PoolInitInfo.CooldownTimeSeconds > 0 /\ UnpoolObject_Call(CooldownBounds)
          => \A h \in NewHandles :
                LET id == Handles'[h].ObjectPoolID IN
                \/ id \notin DOMAIN ObjectPool
                \/ TimeSeconds - ObjectPool[id].LastTimeActive
                      >= PoolInitInfo.CooldownTimeSeconds]_vars

\* A step of one of the three unpool calls / of one of the two matching ones.
AcquireCall(B) ==
    UnpoolObject_Call(B) \/ UnpoolObjectByTag_Call(B) \/ UnpoolObjectByPredicate_Call(B)

MatchingCall(B) == UnpoolObjectByTag_Call(B) \/ UnpoolObjectByPredicate_Call(B)

\* C11: while the pool has a cooldown, a call of UnpoolObject, UnpoolObjectByTag or
\* UnpoolObjectByPredicate force-returns no lease: every handle that is valid before
\* the call is valid after it.
C11_CooldownNeverReclaims ==
    [][PoolInitInfo.CooldownTimeSeconds > 0 /\ AcquireCall(CooldownBounds)
          => \A h \in DOMAIN Handles :
                IsHandleValid(Store, Handles[h])
                    => h \in DOMAIN Handles' /\ IsHandleValid(Store, Handles[h])']_vars

\* C12: while the pool has a cooldown, UnpoolObjectByTag and UnpoolObjectByPredicate
\* hand out an inactive slot only if at least the cooldown has passed since the slot's
\* LastTimeActive.
C12_MatchingRespectsCooldown ==
    [][PoolInitInfo.CooldownTimeSeconds > 0 /\ MatchingCall(CooldownBounds)
          => \A h \in NewHandles :
                LET id == Handles'[h].ObjectPoolID IN
                id \in DOMAIN ObjectPool /\ ~ObjectPool[id].bActive
                    => TimeSeconds - ObjectPool[id].LastTimeActive
                          >= PoolInitInfo.CooldownTimeSeconds]_vars

\* C13: while the pool has a cooldown, a slot that a step returns to the pool is not
\* the slot UnpoolObject hands out in the state the return leaves, that is at the
\* time of the return itself, however long the lease was.
C13_CooldownCountsFromReturn ==
    [][\A id \in DOMAIN ObjectPool \cap DOMAIN ObjectPool' :
          /\ PoolInitInfo.CooldownTimeSeconds > 0
          /\ ObjectPool[id].bActive
          /\ ~ObjectPool'[id].bActive
          => \A Policy \in ReclaimPolicies :
                UnpoolObject(Store, PoolInitInfo, Policy, FALSE, 1)'.id # id]_vars

\* C14: the pool never ends a NonReclaimable lease.  A valid handle whose slot is not
\* flagged reclaimable stays valid across every step other than its holder returning
\* or dropping that handle.
C14_NonReclaimableLeaseKept ==
    [][\A h \in DOMAIN Handles :
          /\ IsHandleValid(Store, Handles[h])
          /\ ~ObjectPool[Handles[h].ObjectPoolID].bIsReclaimable
          /\ ~HandleReturnToPool_On(ReclaimBounds, h)
          /\ ~DropHandle_On(ReclaimBounds, h)
          => h \in DOMAIN Handles' /\ IsHandleValid(Store, Handles[h])']_vars

\* The pool is up and running: what a call of a pool function starts from.
Running == bHasBeenInitialized /\ ~bCrashed

\* The unpool call with result R force-returned the lease of the slot it hands out:
\* the slot was active when the call began.
ForceReturns(R) ==
    /\ ~R.crash
    /\ R.id \in DOMAIN ObjectPool
    /\ ObjectPool[R.id].bActive

\* Some slot of the inactive list holds an object of Match.
ListedMatch(Match) ==
    \E k \in 1..Len(InactiveObjectIDPool) :
        /\ InactiveObjectIDPool[k] \in DOMAIN ObjectPool
        /\ ObjectPool[InactiveObjectIDPool[k]].PooledObject \in Match

\* The pool holds as many slots as its limit allows and none of them is free.
AtCapacityAllActive ==
    /\ GetPoolNum(Store) >= GetPoolLimit
    /\ InactiveIDs(Store) = {}
    /\ Len(InactiveObjectIDPool) = 0

\* The pool holds as many slots as its limit allows and its inactive list is empty.
AtCapacityListEmpty ==
    /\ GetPoolNum(Store) >= GetPoolLimit
    /\ Len(InactiveObjectIDPool) = 0

FullWithReclaimable ==
    /\ Running
    /\ PoolInitInfo.CooldownTimeSeconds <= 0
    /\ AtCapacityAllActive
    /\ \E id \in ActiveIDs(Store) : ObjectPool[id].bIsReclaimable

\* C16: in such a pool UnpoolObject returns a valid handle of a slot that was out on a
\* Reclaimable lease, with a greater checkout id than that lease had; the handle of
\* that lease is stale afterwards, the slot has not passed through the inactive list,
\* and the pool's size and its number of active slots are what they were.
C16_FullPoolReclaims ==
    FullWithReclaimable =>
        \A Policy \in ReclaimPolicies, bFail \in BOOLEAN, Rand \in 1..MaxPoolLimit :
            LET R == UnpoolObject(Store, PoolInitInfo, Policy, bFail, Rand)
            IN /\ ~R.crash
               /\ R.id \in DOMAIN ObjectPool
               /\ ObjectPool[R.id].bIsReclaimable
               /\ IsHandleValid(R.S, NewHandle(R.S, R.id))
               /\ NewHandle(R.S, R.id).ObjectCheckoutID > ObjectPool[R.id].ObjectCheckoutID
               /\ ~IsObjectIDValid(R.S, R.id, ObjectPool[R.id].ObjectCheckoutID)
               /\ R.S.InactiveObjectIDPool = InactiveObjectIDPool
               /\ GetPoolNum(R.S) = GetPoolNum(Store)
               /\ ActiveIDs(R.S) = ActiveIDs(Store)
               /\ GetActivePoolNum(R.S) = GetActivePoolNum(Store)

\* A full pool with a Reclaimable lease out.
C16_Witness == FullWithReclaimable

\* UnpoolObject with these arguments comes back with nullptr.
ReturnsNil(Policy, bFail, Rand) ==
    LET R == UnpoolObject(Store, PoolInitInfo, Policy, bFail, Rand)
    IN ~R.crash /\ R.id = InvalidID

\* A registry entry that no longer names the current lease of a slot.
StaleEntry(k) ==
    LET e == ReclaimableUnpooledObjects[k]
    IN \/ e.PoolID \notin DOMAIN ObjectPool
       \/ ObjectPool[e.PoolID].ObjectCheckoutID # e.CheckoutID

\* Some slot of the inactive list has been inactive for the cooldown or longer.
ListedCooled ==
    \E k \in 1..Len(InactiveObjectIDPool) :
        /\ InactiveObjectIDPool[k] \in DOMAIN ObjectPool
        /\ TimeSeconds - ObjectPool[InactiveObjectIDPool[k]].LastTimeActive
              >= PoolInitInfo.CooldownTimeSeconds

FullWithoutReclaimable ==
    /\ Running
    /\ AtCapacityAllActive
    /\ \A id \in ActiveIDs(Store) : ~ObjectPool[id].bIsReclaimable

\* C18: in such a pool UnpoolObject returns nullptr and changes nothing: the slots,
\* their checkout ids and flags, the inactive list, the registry and the next pool id
\* are what they were, and nothing is broadcast.
C18_FullPoolRefuses ==
    FullWithoutReclaimable =>
        \A Policy \in ReclaimPolicies, bFail \in BOOLEAN, Rand \in 1..MaxPoolLimit :
            LET R == UnpoolObject(Store, PoolInitInfo, Policy, bFail, Rand)
            IN ~R.crash /\ R.id = InvalidID /\ R.S = Store

\* A full pool with nothing to reclaim.
C18_Witness == FullWithoutReclaimable

\* The ids a step leaves in the inactive list, and the ids it puts there.
StayListed == Range(InactiveObjectIDPool) \cap Range(InactiveObjectIDPool')
NewlyListed == Range(InactiveObjectIDPool') \ Range(InactiveObjectIDPool)

\* C19: without a cooldown UnpoolObject hands out the slot at the end of the inactive
\* list, and that slot is the one deactivated last among the inactive ones whatever
\* returns, steals, sweeps and shrinks came before: every step leaves the ids that
\* stay in the list in the order they had and puts the slots it deactivates behind
\* them.
C19_LastDeactivatedFirst ==
    [][~bCrashed' =>
          /\ \A a \in StayListed, b \in StayListed :
                IndexOf(InactiveObjectIDPool, a) < IndexOf(InactiveObjectIDPool, b)
                    => IndexOf(InactiveObjectIDPool', a) < IndexOf(InactiveObjectIDPool', b)
          /\ \A a \in NewlyListed, b \in StayListed :
                IndexOf(InactiveObjectIDPool', b) < IndexOf(InactiveObjectIDPool', a)
          /\ /\ UnpoolObject_Call(SweepBounds)
             /\ PoolInitInfo.CooldownTimeSeconds <= 0
             /\ Len(InactiveObjectIDPool) > 0
             => \A h \in NewHandles :
                   Handles'[h].ObjectPoolID = Last(InactiveObjectIDPool)]_vars

\* A step that steals through the handle h, by TBFObjectPool::StealObject(Handle) or
\* by TBFPooledObjectHandle::StealObject.
StealsThrough(h) == PoolStealObject_On(LeaseBounds, h) \/ HandleStealObject_On(LeaseBounds, h)

\* C20: StealObject through a valid handle returns the object of the handle's slot,
\* lowers GetPoolNum by one, removes the slot and the registry entry of its lease,
\* and leaves every other slot, the inactive list and the pool limit as they were.
C20_StealRemovesOneSlot ==
    [][\A h \in DOMAIN Handles :
          IsHandleValid(Store, Handles[h]) /\ StealsThrough(h)
          => LET id == Handles[h].ObjectPoolID
                 R == StealObject(Store, id, Handles[h].ObjectCheckoutID)
             IN /\ R.obj = ObjectPool[id].PooledObject
                /\ R.obj # NoObject
                /\ ObjectPool' = R.S.ObjectPool
                /\ GetPoolNum(Store)' = GetPoolNum(Store) - 1
                /\ id \notin DOMAIN ObjectPool'
                /\ \A k \in 1..Len(ReclaimableUnpooledObjects') :
                      \/ ReclaimableUnpooledObjects'[k].PoolID # id
                      \/ ReclaimableUnpooledObjects'[k].CheckoutID # Handles[h].ObjectCheckoutID
                /\ \A other \in DOMAIN ObjectPool \ {id} :
                      other \in DOMAIN ObjectPool' /\ ObjectPool'[other] = ObjectPool[other]
                /\ InactiveObjectIDPool' = InactiveObjectIDPool
                /\ PoolInitInfo' = PoolInitInfo]_vars

\* C21: a slot that a step adds to the pool, by construction or by AdoptObject, gets
\* a pool id greater than every pool id handed out before, which CurrentPoolIDIndex
\* records and no step lowers; so no pool id is handed out twice, whatever was stolen,
\* swept or cleared in between and whether or not the emptied pool was initialized
\* again.
C21_PoolIDNeverReused ==
    [][/\ CurrentPoolIDIndex' >= CurrentPoolIDIndex
       /\ \A id \in DOMAIN ObjectPool' \ DOMAIN ObjectPool :
             id > CurrentPoolIDIndex /\ id <= CurrentPoolIDIndex']_vars

\* A pool of limit 1 whose only slot is not the first one it made: the first was
\* removed and a later slot got the next pool id.
C21_Witness ==
    /\ Running
    /\ PoolInitInfo.PoolLimit = 1
    /\ DOMAIN ObjectPool = {1}

\* The slots, the inactive list, the registry and the next pool id.
PoolState == <<ObjectPool, InactiveObjectIDPool, ReclaimableUnpooledObjects, CurrentPoolIDIndex>>

Max(a, b) == IF a >= b THEN a ELSE b

\* The limits a caller passes to SetPoolLimit.
LimitChoices == (0 - 1)..(MaxPoolLimit + 1)

\* C23: SetPoolLimit(n) below the current limit returns true exactly if no more than n
\* slots are active; it then sets the limit to n, leaves at most n slots, removes
\* max(0, size - n) slots, all of them inactive, and touches no active slot and no
\* valid handle; when it returns false the limit, the slots and the inactive list are
\* what they were.  SetPoolLimit(n) at or above the current limit returns true and
\* removes nothing.
C23_SetPoolLimitShrinks ==
    Running =>
        \A n \in LimitChoices :
            LET R == SetPoolLimit(Store, PoolInitInfo, n)
                Removed == DOMAIN ObjectPool \ DOMAIN R.S.ObjectPool
            IN /\ ~R.crash
               /\ n >= GetPoolLimit => R.ok /\ R.limit = n /\ R.S = Store
               /\ n < GetPoolLimit =>
                     /\ R.ok <=> Cardinality(ActiveIDs(Store)) <= n
                     /\ R.ok =>
                           /\ R.limit = n
                           /\ GetPoolNum(R.S) <= n
                           /\ Removed \subseteq InactiveIDs(Store)
                           /\ Cardinality(Removed) = Max(0, GetPoolNum(Store) - n)
                           /\ \A id \in ActiveIDs(Store) :
                                 id \in DOMAIN R.S.ObjectPool
                                 /\ R.S.ObjectPool[id] = ObjectPool[id]
                           /\ \A h \in DOMAIN Handles :
                                 IsHandleValid(Store, Handles[h])
                                    => IsHandleValid(R.S, Handles[h])
                     /\ ~R.ok =>
                           /\ R.limit = GetPoolLimit
                           /\ R.S.ObjectPool = ObjectPool
                           /\ R.S.InactiveObjectIDPool = InactiveObjectIDPool

\* C24: the limit of an initialized pool is at least 1 in every state, SetPoolLimit
\* turning down a limit below 1 as InitPool does.
C24_PoolLimitAtLeastOne == bHasBeenInitialized => PoolInitInfo.PoolLimit >= 1

\* C25: with MaxObjectInactiveOccupancySeconds above 0, EvaluatePoolOccupancy does
\* not remove a slot that has been inactive for less than that time: run in the
\* state a return leaves, that is when the returned slot has been inactive for no
\* time at all, it keeps that slot.
C25_SweepSparesFreshlyReturned ==
    [][\A id \in DOMAIN ObjectPool \cap DOMAIN ObjectPool' :
          /\ PoolInitInfo.MaxObjectInactiveOccupancySeconds > 0
          /\ ObjectPool[id].bActive
          /\ ~ObjectPool'[id].bActive
          /\ ~bCrashed'
          => id \in DOMAIN EvaluatePoolOccupancy(Store, PoolInitInfo)'.S.ObjectPool]_vars

\* C26: while MaxObjectInactiveOccupancySeconds is 0 or less, EvaluatePoolOccupancy
\* removes nothing and returns false, called by Tick or directly.
C26_DisabledSweepRemovesNothing ==
    Running /\ PoolInitInfo.MaxObjectInactiveOccupancySeconds <= 0
        => LET R == EvaluatePoolOccupancy(Store, PoolInitInfo)
           IN ~R.crash /\ ~R.ok /\ R.S = Store

\* The slot id is inactive, ticking is on with a positive threshold, and the clock
\* of the model reaches the time at which the slot's threshold has passed.
AwaitsSweep(id) ==
    /\ Running
    /\ bTickEnabled
    /\ PoolInitInfo.MaxObjectInactiveOccupancySeconds > 0
    /\ id \in InactiveIDs(Store)
    /\ ObjectPool[id].LastTimeActive + PoolInitInfo.MaxObjectInactiveOccupancySeconds
          <= MaxLiveTime

\* The slot id is no longer an inactive slot of the pool: it was removed, or handed
\* out again.
SweptOrTaken(id) == id \notin InactiveIDs(Store)

AdoptRefused(Object) ==
    \/ ~bHasBeenInitialized
    \/ GetPoolNum(Store) >= PoolInitInfo.PoolLimit
    \/ Object = NoObject
    \/ Object = WrongClassObject

\* C28: AdoptObject returns false and changes nothing when the pool is not
\* initialized or is at its limit, or the object is null or not of the pool class;
\* otherwise it returns true, adds exactly one slot, which is inactive, carries a pool
\* id above every id given out so far and checkout id 0 and is the last entry of the
\* inactive list, leaves every other slot as it was, and broadcasts
\* OnObjectAddedToPool exactly once.
C28_AdoptContract ==
    ~bCrashed =>
        \A Object \in Adoptable :
            LET R == AdoptObject(Store, PoolInitInfo, Object)
                id == R.S.CurrentPoolIDIndex
            IN IF AdoptRefused(Object)
               THEN ~R.ok /\ R.S = Store
               ELSE /\ R.ok
                    /\ id > CurrentPoolIDIndex
                    /\ id \notin DOMAIN ObjectPool
                    /\ DOMAIN R.S.ObjectPool = DOMAIN ObjectPool \cup {id}
                    /\ \A k \in DOMAIN ObjectPool : R.S.ObjectPool[k] = ObjectPool[k]
                    /\ R.S.ObjectPool[id].PooledObject = Object
                    /\ R.S.ObjectPool[id].ObjectPoolID = id
                    /\ ~R.S.ObjectPool[id].bActive
                    /\ R.S.ObjectPool[id].ObjectCheckoutID = 0
                    /\ R.S.InactiveObjectIDPool = Append(InactiveObjectIDPool, id)
                    /\ R.S.ReclaimableUnpooledObjects = ReclaimableUnpooledObjects
                    /\ Len(R.S.log) = 1
                    /\ R.S.log[1].ev = "OnObjectAddedToPool"
                    /\ R.S.log[1].id = id

\* An adopted object sits in the pool next to a slot the pool made, as the last entry
\* of the inactive list.
C28_Witness ==
    /\ Running
    /\ Len(InactiveObjectIDPool) > 0
    /\ Last(InactiveObjectIDPool) \in DOMAIN ObjectPool
    /\ ObjectPool[Last(InactiveObjectIDPool)].PooledObject \in ExternalObjects
    /\ \E id \in DOMAIN ObjectPool : ObjectPool[id].PooledObject \notin ExternalObjects

\* C29: in a pool initialised with bAdoptionOnlyPool, GetPoolNum() goes up only in a
\* call of AdoptObject that adds one slot: InitPool with an InitialCount above 0
\* leaves the pool empty and none of the unpool calls constructs an object.
C29_AdoptionOnlyNeverConstructs ==
    [][/\ PoolInitInfo'.bAdoptionOnlyPool
       /\ GetPoolNum(Store)' > GetPoolNum(Store)
       => /\ AdoptObject_Call(AdoptionBounds)
          /\ GetPoolNum(Store)' = GetPoolNum(Store) + 1
          /\ \A id \in DOMAIN ObjectPool' \ DOMAIN ObjectPool :
                ObjectPool'[id].PooledObject \in Adoptable]_vars

\* An adoption-only pool that was initialised with an InitialCount above 0 holds
\* nothing but one adopted object, which is handed out, and has room for another
\* slot.
C29_Witness ==
    /\ Running
    /\ PoolInitInfo.bAdoptionOnlyPool
    /\ PoolInitInfo.InitialCount > 0
    /\ GetPoolNum(Store) = 1
    /\ GetPoolNum(Store) < PoolInitInfo.PoolLimit
    /\ \A id \in DOMAIN ObjectPool :
          ObjectPool[id].bActive /\ ObjectPool[id].PooledObject \in ExternalObjects

\* The configurations InitPool turns down: its first test, and a widget class with an
\* owner that is no player controller, widget, game instance or world.
InitPoolRejects(Info) ==
    \/ Info.Owner = "None"
    \/ ~Info.bWorld
    \/ GetPoolNum(Store) > 0
    \/ Info.PoolClass = "None"
    \/ Info.InitialCount < 0
    \/ Info.PoolLimit < 1
    \/ Info.InitialCount > Info.PoolLimit
    \/ (Info.PoolClass = "UserWidget" /\ Info.Owner # "PlayerController")

\* C30: an InitPool call that is turned down leaves every member of the pool as it
\* was: PoolInitInfo, PoolType, WidgetPoolOwnerType, the slot map, the inactive list,
\* the reclaim registry, the pool id counter, the tick switch and
\* bHasBeenInitialized; and the call returns.
C30_RejectedInitChangesNothing ==
    [][\A Info \in ReinitBounds.InitChoices :
          InitPoolRejects(Info) /\ InitPool_On(ReinitBounds, Info)
             => /\ UNCHANGED <<PoolState, Config>>
                /\ ~bCrashed']_vars

\* The ids of the slots that have been inactive for the cooldown or longer.
CooledIDs ==
    {id \in InactiveIDs(Store) :
        TimeSeconds - ObjectPool[id].LastTimeActive >= PoolInitInfo.CooldownTimeSeconds}

\* C31: with a cooldown UnpoolObject hands out, among the inactive slots whose
\* cooldown has passed, the one that entered the inactive list first, whatever
\* returns, matching unpool calls and sweeps came before: every step leaves the ids
\* that stay in the list in the order they had and puts the slots it deactivates
\* behind them, and UnpoolObject takes the first cooled id of the list.
C31_OldestCooledFirst ==
    [][~bCrashed' =>
          /\ \A a \in StayListed, b \in StayListed :
                IndexOf(InactiveObjectIDPool, a) < IndexOf(InactiveObjectIDPool, b)
                    => IndexOf(InactiveObjectIDPool', a) < IndexOf(InactiveObjectIDPool', b)
          /\ \A a \in NewlyListed, b \in StayListed :
                IndexOf(InactiveObjectIDPool', b) < IndexOf(InactiveObjectIDPool', a)
          /\ /\ UnpoolObject_Call(CooldownSweepBounds)
             /\ PoolInitInfo.CooldownTimeSeconds > 0
             /\ ListedCooled
             => \A h \in NewHandles :
                   /\ Handles'[h].ObjectPoolID \in CooledIDs
                   /\ \A id \in CooledIDs \cap Range(InactiveObjectIDPool) :
                         IndexOf(InactiveObjectIDPool, Handles'[h].ObjectPoolID)
                            <= IndexOf(InactiveObjectIDPool, id)]_vars

\* The ids of the inactive slots whose LastTimeActive lies the eviction threshold or
\* longer in the past.
ExpiredIDs ==
    {id \in InactiveIDs(Store) :
        TimeSeconds - ObjectPool[id].LastTimeActive
            >= PoolInitInfo.MaxObjectInactiveOccupancySeconds}

\* The positions of the log at which OnObjectRemovedFromPool is broadcast for id.
RemovedBroadcasts(log, id) ==
    {k \in 1..Len(log) : log[k].ev = "OnObjectRemovedFromPool" /\ log[k].id = id}

\* C32: one call of EvaluatePoolOccupancy with a threshold above 0 removes every
\* inactive slot whose LastTimeActive lies the threshold or longer in the past, from
\* the map and from the inactive list, and no other slot; GetPoolNum() goes down by
\* the number of slots removed and OnObjectRemovedFromPool is broadcast once for each
\* of them and for no other id.
C32_SweepRemovesExactlyExpired ==
    Running /\ PoolInitInfo.MaxObjectInactiveOccupancySeconds > 0
        => LET R == EvaluatePoolOccupancy(Store, PoolInitInfo)
           IN /\ ~R.crash
              /\ R.ok <=> ExpiredIDs # {}
              /\ DOMAIN R.S.ObjectPool = DOMAIN ObjectPool \ ExpiredIDs
              /\ \A id \in DOMAIN R.S.ObjectPool : R.S.ObjectPool[id] = ObjectPool[id]
              /\ Range(R.S.InactiveObjectIDPool) = Range(InactiveObjectIDPool) \ ExpiredIDs
              /\ GetPoolNum(R.S) = GetPoolNum(Store) - Cardinality(ExpiredIDs)
              /\ \A id \in 0..MaxSweepPoolID :
                    Cardinality(RemovedBroadcasts(R.S.log, id))
                        = IF id \in ExpiredIDs THEN 1 ELSE 0

\* C33: TBFObjectPool::ReturnToPool on a valid handle hands the slot's own object,
\* never nullptr, to DeactivateObject, once, and then marks the slot inactive and
\* appends it to the inactive list: the object GetObject() yields at the point of the
\* call is the slot's, the call returns, and afterwards the slot is inactive and last
\* in the list.
C33_PoolReturnDeactivatesOwnObject ==
    [][\A h \in DOMAIN Handles :
          PoolReturnToPool_On(MainBounds, h) /\ IsHandleValid(Store, Handles[h])
             => LET id == Handles[h].ObjectPoolID
                    Bumped == [Store EXCEPT !.ObjectPool[id].ObjectCheckoutID = Inc16(@)]
                IN /\ GetObject(Bumped, Handles[h]) = ObjectPool[id].PooledObject
                   /\ ~bCrashed'
                   /\ ~ObjectPool'[id].bActive
                   /\ Len(InactiveObjectIDPool') > 0
                   /\ Last(InactiveObjectIDPool') = id]_vars

\* UnpoolObject gets to CreateNewPoolEntry: the inactive list is empty and the pool is
\* below its limit, or the pool has a cooldown, no listed slot has cooled and the pool
\* is below its limit.
UnpoolConstructs ==
    /\ GetPoolNum(Store) < PoolInitInfo.PoolLimit
    /\ \/ Len(InactiveObjectIDPool) = 0
       \/ /\ PoolInitInfo.CooldownTimeSeconds >= KINDA_SMALL_NUMBER
          /\ ~ListedCooled
          /\ ~PoolInitInfo.bAdoptionOnlyPool

\* C34: when the engine fails to construct the object UnpoolObject asks for,
\* UnpoolObject returns nullptr and leaves the pool as it was, with or without a
\* cooldown, whether the inactive list is empty or holds only slots that are still
\* cooling down.
C34_FailedConstructionReturnsNil ==
    Running /\ UnpoolConstructs
        => \A Policy \in ReclaimPolicies, Rand \in 1..MaxPoolLimit :
              LET R == UnpoolObject(Store, PoolInitInfo, Policy, TRUE, Rand)
              IN ~R.crash /\ R.id = InvalidID /\ R.S = Store

\* C35: UnpoolObjectByPredicate called with the predicate "the object's tag is Tag"
\* hands out the slot UnpoolObjectByTag(Tag) hands out and leaves the pool as that
\* call leaves it, from every state of the pool, the states with an empty inactive
\* list and a matching Reclaimable lease included.
C35_PredicateAgreesWithTag ==
    Running =>
        \A Tag \in Tags, Policy \in ReclaimPolicies, bIntact \in BOOLEAN :
            UnpoolObjectByPredicate(Store, PoolInitInfo, ObjectsWithTag(Tag), Policy, bIntact)
                = UnpoolObjectByTag(Store, PoolInitInfo, Tag, Policy, bIntact)

\* The registry entry at position k has the least TimeUnpooled of the registry and is
\* the first entry that has it.
OldestLease(k) ==
    /\ \A j \in 1..Len(ReclaimableUnpooledObjects) :
          ReclaimableUnpooledObjects[k].TimeUnpooled
              <= ReclaimableUnpooledObjects[j].TimeUnpooled
    /\ \A j \in 1..(k - 1) :
          ReclaimableUnpooledObjects[j].TimeUnpooled
              > ReclaimableUnpooledObjects[k].TimeUnpooled

\* C36: under the Oldest strategy the lease UnpoolObject force-returns is the one of
\* the registry entry with the least TimeUnpooled, the first entry in registry order
\* if several have it: the slot handed out is that entry's, the lease returned is the
\* one with that entry's checkout id, and the entry leaves the registry.
C36_OldestReclaimsMinimum ==
    Running /\ PoolInitInfo.ForceReturnReclaimStrategy = "Oldest" /\ FullWithReclaimable
        => \A Policy \in ReclaimPolicies :
              LET R == UnpoolObject(Store, PoolInitInfo, Policy, FALSE, 1)
              IN R.id # InvalidID
                    => \E k \in 1..Len(ReclaimableUnpooledObjects) :
                          LET e == ReclaimableUnpooledObjects[k] IN
                          /\ OldestLease(k)
                          /\ R.id = e.PoolID
                          /\ ObjectPool[e.PoolID].ObjectCheckoutID = e.CheckoutID
                          /\ R.S.log[1] = Event("DeactivateObject", e.PoolID, e.CheckoutID,
                                                ObjectPool[e.PoolID].PooledObject)
                          /\ \A j \in 1..Len(R.S.ReclaimableUnpooledObjects) :
                                R.S.ReclaimableUnpooledObjects[j] # e

\* The pool is full, every slot is out on a Reclaimable lease, and the oldest lease is
\* neither the first nor the last entry of the registry.
C36_Witness ==
    /\ Running
    /\ PoolInitInfo.ForceReturnReclaimStrategy = "Oldest"
    /\ FullWithReclaimable
    /\ Len(ReclaimableUnpooledObjects) = MaxSweepPoolLimit
    /\ \E k \in 2..(MaxSweepPoolLimit - 1) : OldestLease(k)

\* What a call that force-returns the lease of slot id has to log: the old lease is
\* deactivated and broadcast as returned with the checkout id it had, then the slot is
\* activated and broadcast as unpooled with the checkout id of the new lease.
ReclaimLog(id) ==
    LET Info == ObjectPool[id]
        gen == Inc16(Inc16(Info.ObjectCheckoutID))
    IN << Event("DeactivateObject", id, Info.ObjectCheckoutID, Info.PooledObject),
          Event("OnObjectPooled_Return", id, Info.ObjectCheckoutID, Info.PooledObject),
          Event("ActivateObject", id, gen, Info.PooledObject),
          Event("OnObjectPooled_Unpool", id, gen, Info.PooledObject) >>

\* C37: a call of UnpoolObject, UnpoolObjectByTag or UnpoolObjectByPredicate that
\* hands out a slot that was active, by force-returning its lease, broadcasts
\* OnObjectPooled once as a return with the slot's pool id and the checkout id of the
\* old lease and then once as an unpool with the same pool id and the checkout id of
\* the new lease, and deactivates the object before it activates it.
C37_ReclaimNotifiesReturnThenLease ==
    Running =>
        \A Policy \in ReclaimPolicies, bIntact \in BOOLEAN, Tag \in Tags :
            LET U == UnpoolObject(Store, PoolInitInfo, Policy, FALSE, 1)
                T == UnpoolObjectByTag(Store, PoolInitInfo, Tag, Policy, bIntact)
                Q == UnpoolObjectByPredicate(Store, PoolInitInfo, ObjectsWithTag(Tag), Policy, bIntact)
            IN \A R \in {U, T, Q} :
                  ~R.crash /\ R.id \in ActiveIDs(Store) => R.S.log = ReclaimLog(R.id)

\* A lease has been force-returned: a handle nobody returned or stole through is
\* stale, and its slot is out on the lease that followed.
C37_Witness ==
    /\ Running
    /\ \E h \in DOMAIN Handles :
          /\ ~Handles[h].bInvalidated
          /\ Handles[h].ObjectPoolID \in ActiveIDs(Store)
          /\ ObjectPool[Handles[h].ObjectPoolID].ObjectCheckoutID
                = Inc16(Inc16(Handles[h].ObjectCheckoutID))

\* A step that steals through the handle h, by either StealObject, under the bounds
\* of Spec.
StealStep(h) == PoolStealObject_On(MainBounds, h) \/ HandleStealObject_On(MainBounds, h)

\* C38: when the object a valid handle's StealObject returned is passed to
\* AdoptObject next, AdoptObject takes it, GetPoolNum() is what it was before the
\* steal, the object sits in an inactive slot with another pool id than the handle's,
\* and every handle with the pool id of the stolen lease is stale.
C38_AdoptUndoesSteal ==
    [][\A h \in DOMAIN Handles :
          (IsHandleValid(Store, Handles[h])
              /\ Handles[h].ObjectPoolID \notin DOMAIN ObjectPool' /\ StealStep(h))
             => LET id == Handles[h].ObjectPoolID
                    Stolen == StealObject(Store, id, Handles[h].ObjectCheckoutID).obj
                    A == AdoptObject(Store', PoolInitInfo', Stolen)
                    new == A.S.CurrentPoolIDIndex
                IN /\ Stolen = ObjectPool[id].PooledObject
                   /\ A.ok
                   /\ GetPoolNum(A.S) = GetPoolNum(Store)
                   /\ new # id
                   /\ new \in InactiveIDs(A.S)
                   /\ A.S.ObjectPool[new].PooledObject = Stolen
                   /\ \A g \in DOMAIN Handles' :
                         Handles'[g].ObjectPoolID = id => ~IsHandleValid(A.S, Handles'[g])]_vars

\* An object the pool constructed for one slot sits in a later, inactive slot, the
\* slot it was stolen from is gone, and a handle of the stolen lease is still held.
C38_Witness ==
    /\ Running
    /\ \E id \in InactiveIDs(Store), h \in DOMAIN Handles :
          /\ ObjectPool[id].PooledObject < id
          /\ ObjectPool[id].PooledObject \notin DOMAIN ObjectPool
          /\ Handles[h].ObjectPoolID = ObjectPool[id].PooledObject
          /\ Handles[h].PooledObject = ObjectPool[id].PooledObject

\* C39: every slot of the map is active exactly if its checkout id is odd: slots are
\* made and adopted inactive with checkout id 0, and every unpool and every return
\* adds 1.
C39_ActiveIffOddCheckoutID ==
    \A id \in DOMAIN ObjectPool :
        ObjectPool[id].bActive <=> ObjectPool[id].ObjectCheckoutID % 2 = 1

\* C40: no object is held by two slots of the pool: AdoptObject of an object a slot
\* of the pool already holds, inactive or handed out, adds no second slot for it.
C40_NoObjectInTwoSlots ==
    \A a \in DOMAIN ObjectPool, b \in DOMAIN ObjectPool :
        ObjectPool[a].PooledObject = ObjectPool[b].PooledObject => a = b
====
